---------------------------- MODULE Spec2Model ----------------------------
(***************************************************************************)
(* A model of linux-keyutils: the KeyPermissions mask, the Metadata        *)
(* descriptor parser, the KeyError mapping, the Key / KeyRing operations   *)
(* over the kernel's key store, the Links of a keyring and the             *)
(* KeyutilsCredential built on them.                                       *)
(*                                                                         *)
(* A u32 is a tuple of four bytes <<b3, b2, b1, b0>>, most significant     *)
(* first: the model checker's integers are narrower than 2^32, and the     *)
(* carries between the bytes are what the permission setters depend on.    *)
(***************************************************************************)
EXTENDS Integers, Sequences, FiniteSets, TLC

VARIABLES
    perms,       \* KeyPermissions.0, the u32 mask
    permCall,    \* the last setter call on perms: [op, tier, perm, before]
    permStage,   \* "raw" (from_u32) | "new" | "builder" | "built"
    permLast     \* history: per tier, the Permission of its last setter call

VARIABLES
    errno,       \* the thread's errno after the last system call
    keyError     \* what keyctl_impl returned for it: NoError or a KeyError

VARIABLES
    mdInput,     \* the key a descriptor was written for, or NoInput
    mdStr,       \* the descriptor: type;uid;gid;perm;description
    mdResult     \* what Metadata::from_str / from_id returned for it

VARIABLES
    keys,        \* the kernel's keys and keyrings, by serial number
    special,     \* the caller's special keyrings: identifier -> serial, 0 if none
    rings,       \* the KeyRing values the program holds
    handles,     \* the Key values the program holds
    ret          \* the last call of the API: its arguments and what it returned

VARIABLES
    credential,  \* the KeyutilsCredential the program holds, once it is built
    stored       \* history: the secret of the last set_secret that succeeded, if
                 \* no delete_credential and no change of the keyrings followed it

VARIABLES
    getter,      \* a thread inside get_secret: [pc, key, result, after_delete]
    deleter      \* a thread inside delete_credential: [pc, key, result, deleted]

permVars == <<perms, permCall, permStage, permLast>>

errVars == <<errno, keyError>>

metaVars == <<mdInput, mdStr, mdResult>>

kernelVars == <<keys, special, rings, handles, ret>>

storeVars == <<credential, stored>>

raceVars == <<getter, deleter>>

vars == <<permVars, errVars, metaVars, kernelVars, storeVars, raceVars>>

\* what each component leaves alone
outsidePerm == <<errVars, metaVars, kernelVars, storeVars, raceVars>>

outsideErr == <<permVars, metaVars, kernelVars, storeVars, raceVars>>

outsideMeta == <<permVars, keyError, kernelVars, storeVars, raceVars>>

outsideKernel == <<permVars, keyError, metaVars, storeVars, raceVars>>

\* no KeyPermissions in play
PermIdle ==
    /\ perms = <<0, 0, 0, 0>>
    /\ permCall = [op |-> "none"]
    /\ permStage = "none"
    /\ permLast = [t \in {"posessor", "user", "group", "world"} |-> <<>>]

\* no descriptor in play
MetaIdle ==
    /\ mdInput = [ktype |-> "none"]
    /\ mdStr = <<>>
    /\ mdResult = [via |-> "none"]

\* no system call has failed
ErrIdle == errno = 0 /\ keyError = "none"

\* no credential built
\* no thread inside a call of the credential
RaceIdle ==
    /\ getter = [pc |-> "idle", after_delete |-> FALSE]
    /\ deleter = [pc |-> "idle", deleted |-> FALSE]

StoreIdle == credential = [built |-> FALSE] /\ stored = <<>> /\ RaceIdle

\* no kernel in play
KernelIdle ==
    /\ keys = <<>>
    /\ special = <<>>
    /\ rings = {}
    /\ handles = {}
    /\ ret = [op |-> "none"]

---------------------------------------------------------------------------
(* u32 arithmetic on four bytes *)

Bytes == 0..255

RECURSIVE AndBits(_, _, _)
AndBits(x, y, n) ==
    IF n = 0 THEN 0
    ELSE (x % 2) * (y % 2) + 2 * AndBits(x \div 2, y \div 2, n - 1)

\* x & y
And32(x, y) == [i \in 1..4 |-> AndBits(x[i], y[i], 8)]

\* !x
Not32(x) == [i \in 1..4 |-> 255 - x[i]]

\* x << k, for the shifts the source uses (whole bytes)
Shl32(x, k) == [i \in 1..4 |-> IF i + (k \div 8) <= 4 THEN x[i + (k \div 8)] ELSE 0]

\* v as u32, for a u8 v
U8AsU32(v) == <<0, 0, 0, v>>

\* the byte-wise sums of x + y with the carries rippled up from the least
\* significant byte: <<s1, s2, s3, s4>>, each up to 511
ByteSums(x, y) ==
    LET s4 == x[4] + y[4]
        s3 == x[3] + y[3] + (s4 \div 256)
        s2 == x[2] + y[2] + (s3 \div 256)
        s1 == x[1] + y[1] + (s2 \div 256)
    IN  <<s1, s2, s3, s4>>

\* x + y, wrapping at 2^32 (a release build's +=)
Add32(x, y) == LET s == ByteSums(x, y) IN [i \in 1..4 |-> s[i] % 256]

\* x + y does not fit a u32 (a debug build's += panics)
AddOverflows32(x, y) == ByteSums(x, y)[1] >= 256

---------------------------------------------------------------------------
(* errors.rs *)

\* libc's errno values on Linux
EACCES == 13

EDQUOT == 122

EFAULT == 14

EINVAL == 22

EKEYEXPIRED == 127

EKEYREVOKED == 128

EKEYREJECTED == 129

ENOMEM == 12

ENOKEY == 126

ENOTSUP == 95

\* the largest errno a system call is taken to fail with
MaxErrno == 133

\* enum KeyError; Unknown(x) is <<"Unknown", x>>
KeyErrorKinds ==
    {"AccessDenied", "QuotaExceeded", "BadAddress", "InvalidArguments",
     "KeyExpired", "KeyRevoked", "KeyRejected", "KeyringDoesNotExist",
     "KeyDoesNotExist", "OutOfMemory", "InvalidDescription", "InvalidIdentifier",
     "OperationNotSupported", "WriteError"}

Unknown(x) == <<"Unknown", x>>

\* the mutant of from_errno that has EKEYREVOKED and EKEYEXPIRED swapped
from_errno_swapped(e) ==
    CASE e = EACCES -> "AccessDenied"
      [] e = EDQUOT -> "QuotaExceeded"
      [] e = EFAULT -> "BadAddress"
      [] e = EINVAL -> "InvalidArguments"
      [] e = EKEYEXPIRED -> "KeyRevoked"
      [] e = EKEYREVOKED -> "KeyExpired"
      [] e = EKEYREJECTED -> "KeyRejected"
      [] e = ENOMEM -> "OutOfMemory"
      [] e = ENOKEY -> "KeyDoesNotExist"
      [] e = ENOTSUP -> "OperationNotSupported"
      [] OTHER -> Unknown(e)

\* KeyError::from_errno, on the errno it reads
from_errno(e) ==
    CASE e = EACCES -> "AccessDenied"
      [] e = EDQUOT -> "QuotaExceeded"
      [] e = EFAULT -> "BadAddress"
      [] e = EINVAL -> "InvalidArguments"
      [] e = EKEYEXPIRED -> "KeyExpired"
      [] e = EKEYREVOKED -> "KeyRevoked"
      [] e = EKEYREJECTED -> "KeyRejected"
      [] e = ENOMEM -> "OutOfMemory"
      [] e = ENOKEY -> "KeyDoesNotExist"
      [] e = ENOTSUP -> "OperationNotSupported"
      [] OTHER -> Unknown(e)

NoError == "none"

InitErrno == ErrIdle /\ PermIdle /\ MetaIdle /\ KernelIdle /\ StoreIdle

\* libc::syscall returns a negative result and leaves its reason in errno
SyscallFails(e) ==
    /\ errno' = e
    /\ keyError' = NoError
    /\ UNCHANGED outsideErr

\* keyctl_impl: if res < 0 { return Err(KeyError::from_errno()) }
KeyctlImplErr ==
    /\ errno > 0
    /\ keyError = NoError
    /\ keyError' = from_errno(errno)
    /\ UNCHANGED <<errno, outsideErr>>

NextErrno ==
    \/ \E e \in 1..MaxErrno : SyscallFails(e)
    \/ KeyctlImplErr

SpecErrno == InitErrno /\ [][NextErrno]_vars

---------------------------------------------------------------------------
(* permissions.rs *)

\* bitflags! Permission: the flag constants
PermissionFlag ==
    [VIEW |-> 1, READ |-> 2, WRITE |-> 4, SEARCH |-> 8, LINK |-> 16, SETATTR |-> 32]

FlagNames == DOMAIN PermissionFlag

\* a Permission value: a set of flags
Permission == SUBSET FlagNames

PermissionALL == FlagNames

\* Permission::bits(): the union of the flags held
PermissionBits(p) ==
    (IF "VIEW" \in p THEN PermissionFlag.VIEW ELSE 0)
    + (IF "READ" \in p THEN PermissionFlag.READ ELSE 0)
    + (IF "WRITE" \in p THEN PermissionFlag.WRITE ELSE 0)
    + (IF "SEARCH" \in p THEN PermissionFlag.SEARCH ELSE 0)
    + (IF "LINK" \in p THEN PermissionFlag.LINK ELSE 0)
    + (IF "SETATTR" \in p THEN PermissionFlag.SETATTR ELSE 0)

\* KeyPermissions::new()
KeyPermissionsNew == <<0, 0, 0, 0>>

\* KeyPermissions::from_u32(raw)
KeyPermissionsFromU32(raw) == raw

\* KeyPermissions::bits()
Bits(self) == self

\* the mutant of set_user_perms that adds without clearing the byte first
set_user_perms_additive(self, perm) ==
    Add32(self, Shl32(U8AsU32(PermissionBits(perm)), 16))

\* the mutant of set_posessor_perms that keeps what the byte held
set_posessor_perms_accumulate(self, perm) ==
    Add32(self, Shl32(U8AsU32(PermissionBits(perm)), 24))

\* self.0 &= !(0xFF << 24); self.0 += (perm.bits() as u32) << 24;
set_posessor_perms(self, perm) ==
    Add32(And32(self, Not32(Shl32(U8AsU32(255), 24))),
          Shl32(U8AsU32(PermissionBits(perm)), 24))

set_user_perms(self, perm) ==
    Add32(And32(self, Not32(Shl32(U8AsU32(255), 16))),
          Shl32(U8AsU32(PermissionBits(perm)), 16))

\* the mutant of set_group_perms that leaves out the masked clear
set_group_perms_unmasked(self, perm) ==
    Add32(self, Shl32(U8AsU32(PermissionBits(perm)), 8))

set_group_perms(self, perm) ==
    Add32(And32(self, Not32(Shl32(U8AsU32(255), 8))),
          Shl32(U8AsU32(PermissionBits(perm)), 8))

set_world_perms(self, perm) ==
    Add32(And32(self, Not32(U8AsU32(255))),
          U8AsU32(PermissionBits(perm)))

Tiers == {"posessor", "user", "group", "world"}

\* the setter of a tier
SetTierPerms(tier, self, perm) ==
    CASE tier = "posessor" -> set_posessor_perms(self, perm)
      [] tier = "user"     -> set_user_perms(self, perm)
      [] tier = "group"    -> set_group_perms(self, perm)
      [] tier = "world"    -> set_world_perms(self, perm)

\* the byte of the mask a tier owns: bits 24-31 possessor, 16-23 user,
\* 8-15 group, 0-7 world
TierIndex == [posessor |-> 1, user |-> 2, group |-> 3, world |-> 4]

NoCall == [op |-> "none"]

\* no setter call yet on any tier; <<p>> once a tier was set to p
NeverSet == [t \in Tiers |-> <<>>]

\* the bytes a starting mask is drawn from: empty, all six flags, the two
\* reserved bits alone, and everything
ByteSample == {0, 63, 192, 255}

\* the Permission values of the repository's tests
PermissionSample ==
    { {}, {"SEARCH"}, {"SEARCH", "VIEW"}, {"VIEW", "READ", "WRITE"},
      {"SETATTR", "VIEW", "READ", "WRITE"}, PermissionALL }

\* a mask received from outside: KeyPermissions::from_u32(raw)
InitPerms ==
    /\ perms \in {KeyPermissionsFromU32(<<a, b, c, d>>) : a \in ByteSample,
                    b \in ByteSample, c \in ByteSample, d \in ByteSample}
    /\ permCall = NoCall
    /\ permStage = "raw"
    /\ permLast = NeverSet
    /\ ErrIdle
    /\ MetaIdle
    /\ KernelIdle
    /\ StoreIdle

\* one call of set_<tier>_perms(perm) on a mask
SetPermsCall(tier, perm) ==
    /\ permStage = "raw"
    /\ permCall = NoCall
    /\ perms' = SetTierPerms(tier, perms, perm)
    /\ permCall' = [op |-> "set", tier |-> tier, perm |-> perm, before |-> perms]
    /\ UNCHANGED <<permStage, permLast, outsidePerm>>

NextPerms ==
    \E perm \in Permission :
        \/ SetPermsCall("posessor", perm)
        \/ SetPermsCall("user", perm)
        \/ SetPermsCall("group", perm)
        \/ SetPermsCall("world", perm)

SpecPerms == InitPerms /\ [][NextPerms]_vars

\* KeyPermissionsBuilder::builder()
KeyPermissionsBuilderBuilder == KeyPermissionsNew

\* KeyPermissionsBuilder::posessor / user / group / world: self.0.set_*(perm)
BuilderPosessor(self, perm) == set_posessor_perms(self, perm)

BuilderUser(self, perm) == set_user_perms(self, perm)

BuilderGroup(self, perm) == set_group_perms(self, perm)

BuilderWorld(self, perm) == set_world_perms(self, perm)

\* KeyPermissionsBuilder::build()
BuilderBuild(self) == self

\* a mask built up from nothing: KeyPermissions::new() or
\* KeyPermissionsBuilder::builder()
InitBuilder ==
    /\ \/ perms = KeyPermissionsNew /\ permStage = "new"
       \/ perms = KeyPermissionsBuilderBuilder /\ permStage = "builder"
    /\ permCall = NoCall
    /\ permLast = NeverSet
    /\ ErrIdle
    /\ MetaIdle
    /\ KernelIdle
    /\ StoreIdle

\* set_<tier>_perms(perm) on a KeyPermissions made by new() or by build()
DirectSet(tier, perm) ==
    /\ permStage \in {"new", "built"}
    /\ perms' = SetTierPerms(tier, perms, perm)
    /\ permLast' = [permLast EXCEPT ![tier] = <<perm>>]
    /\ UNCHANGED <<permCall, permStage, outsidePerm>>

\* a chained builder call
BuilderSet(tier, perm) ==
    /\ permStage = "builder"
    /\ perms' = CASE tier = "posessor" -> BuilderPosessor(perms, perm)
                  [] tier = "user"     -> BuilderUser(perms, perm)
                  [] tier = "group"    -> BuilderGroup(perms, perm)
                  [] tier = "world"    -> BuilderWorld(perms, perm)
    /\ permLast' = [permLast EXCEPT ![tier] = <<perm>>]
    /\ UNCHANGED <<permCall, permStage, outsidePerm>>

Build ==
    /\ permStage = "builder"
    /\ perms' = BuilderBuild(perms)
    /\ permStage' = "built"
    /\ UNCHANGED <<permCall, permLast, outsidePerm>>

NextBuilder ==
    \/ \E tier \in Tiers, perm \in PermissionSample : DirectSet(tier, perm)
    \/ \E tier \in Tiers, perm \in PermissionSample : BuilderSet(tier, perm)
    \/ Build

SpecBuilder == InitBuilder /\ [][NextBuilder]_vars

---------------------------------------------------------------------------
(* Strings are sequences of one-character strings; "NUL" is the byte 0 and *)
(* "xFF" a byte that is not valid UTF-8.                                   *)

NUL == "NUL"

BadByte == "xFF"

\* Option: None is <<>>, Some(v) is <<v>>
None == <<>>

Some(v) == <<v>>

\* Result
Ok(v) == [ok |-> TRUE, val |-> v]

Err(e) == [ok |-> FALSE, err |-> e]

---------------------------------------------------------------------------
(* ffi/types.rs *)

KeyTypes == {"KeyRing", "User", "Logon", "BigKey"}

\* impl From<KeyType> for &'static CStr
KeyTypeCStr(t) ==
    CASE t = "KeyRing" -> <<"k", "e", "y", "r", "i", "n", "g", NUL>>
      [] t = "User"    -> <<"u", "s", "e", "r", NUL>>
      [] t = "Logon"   -> <<"l", "o", "g", "o", "n", NUL>>
      [] t = "BigKey"  -> <<"b", "i", "g", "_", "k", "e", "y", NUL>>

\* CStr::to_bytes: the bytes before the terminator
CStrToBytes(cs) == SubSeq(cs, 1, Len(cs) - 1)

\* the mutant of try_from that spells the big key's tag without the underscore
KeyTypeTryFrom_bigkey(s) ==
    CASE s = <<"k", "e", "y", "r", "i", "n", "g">> -> Ok("KeyRing")
      [] s = <<"u", "s", "e", "r">> -> Ok("User")
      [] s = <<"l", "o", "g", "o", "n">> -> Ok("Logon")
      [] s = <<"b", "i", "g", "k", "e", "y">> -> Ok("BigKey")
      [] OTHER -> Err("InvalidIdentifier")

\* impl TryFrom<&str> for KeyType
KeyTypeTryFrom(s) ==
    CASE s = <<"k", "e", "y", "r", "i", "n", "g">> -> Ok("KeyRing")
      [] s = <<"u", "s", "e", "r">> -> Ok("User")
      [] s = <<"l", "o", "g", "o", "n">> -> Ok("Logon")
      [] s = <<"b", "i", "g", "_", "k", "e", "y">> -> Ok("BigKey")
      [] OTHER -> Err("InvalidIdentifier")

---------------------------------------------------------------------------
(* core::num, as metadata.rs uses it: str::parse::<u32>() and              *)
(* u32::from_str_radix(v, 16)                                              *)

HexLower == <<"0", "1", "2", "3", "4", "5", "6", "7", "8", "9", "a", "b", "c", "d", "e", "f">>

HexUpper == <<"0", "1", "2", "3", "4", "5", "6", "7", "8", "9", "A", "B", "C", "D", "E", "F">>

\* char::to_digit(radix)
ToDigit(c, radix) ==
    IF \E i \in 1..16 : HexLower[i] = c \/ HexUpper[i] = c
    THEN LET v == (CHOOSE i \in 1..16 : HexLower[i] = c \/ HexUpper[i] = c) - 1
         IN  IF v < radix THEN Some(v) ELSE None
    ELSE None

\* the byte-wise products of x * k with the carries rippled up
ByteProducts(x, k) ==
    LET p4 == x[4] * k
        p3 == x[3] * k + (p4 \div 256)
        p2 == x[2] * k + (p3 \div 256)
        p1 == x[1] * k + (p2 \div 256)
    IN  <<p1, p2, p3, p4>>

\* u32::checked_mul(k) and u32::checked_add(d)
CheckedMul(x, k) ==
    LET p == ByteProducts(x, k)
    IN  IF p[1] >= 256 THEN None ELSE Some([i \in 1..4 |-> p[i] % 256])

CheckedAdd(x, d) ==
    IF AddOverflows32(x, U8AsU32(d)) THEN None ELSE Some(Add32(x, U8AsU32(d)))

RECURSIVE ParseDigits(_, _, _)
ParseDigits(digits, radix, acc) ==
    IF digits = <<>> THEN Some(acc)
    ELSE LET d == ToDigit(Head(digits), radix)
         IN  IF d = None THEN None
             ELSE LET m == CheckedMul(acc, radix)
                  IN  IF m = None THEN None
                      ELSE LET a == CheckedAdd(m[1], d[1])
                           IN  IF a = None THEN None
                               ELSE ParseDigits(Tail(digits), radix, a[1])

\* u32::from_str_radix(src, radix).ok(): an optional '+', then digits, each
\* step checked for overflow
from_str_radix_ok(src, radix) ==
    IF src = <<>> THEN None
    ELSE IF Len(src) = 1 /\ src[1] \in {"+", "-"} THEN None
    ELSE LET digits == IF src[1] = "+" THEN Tail(src) ELSE src
         IN  ParseDigits(digits, radix, <<0, 0, 0, 0>>)

---------------------------------------------------------------------------
(* metadata.rs *)

\* str::split(';'): the fields between the separators, in order
RECURSIVE Split(_)
Split(s) ==
    IF \A i \in 1..Len(s) : s[i] # ";" THEN <<s>>
    ELSE LET i == CHOOSE i \in 1..Len(s) :
                      s[i] = ";" /\ \A j \in 1..(i - 1) : s[j] # ";"
         IN  <<SubSeq(s, 1, i - 1)>> \o Split(SubSeq(s, i + 1, Len(s)))

\* iter.next(), for the n-th call
IterNext(fields, n) == IF n <= Len(fields) THEN Some(fields[n]) ELSE None

\* the mutant of from_str that reports a bad type tag as try_from's own error
from_str_tag_error(s) ==
    LET fields == Split(s)
        ktype == IF IterNext(fields, 1) = None THEN Err("InvalidDescription")
                 ELSE KeyTypeTryFrom(IterNext(fields, 1)[1])
        uid == IF IterNext(fields, 2) = None THEN None
               ELSE from_str_radix_ok(IterNext(fields, 2)[1], 10)
        gid == IF IterNext(fields, 3) = None THEN None
               ELSE from_str_radix_ok(IterNext(fields, 3)[1], 10)
        perms32 == IF IterNext(fields, 4) = None THEN None
                   ELSE from_str_radix_ok(IterNext(fields, 4)[1], 16)
        description == IterNext(fields, 5)
    IN  IF ~ktype.ok THEN ktype
        ELSE IF uid = None THEN Err("InvalidDescription")
        ELSE IF gid = None THEN Err("InvalidDescription")
        ELSE IF perms32 = None THEN Err("InvalidDescription")
        ELSE IF description = None THEN Err("InvalidDescription")
        ELSE Ok([ktype |-> ktype.val, uid |-> uid[1], gid |-> gid[1],
                 perm |-> KeyPermissionsFromU32(perms32[1]),
                 description |-> description[1]])

\* the mutant of from_str that reads the permission field in decimal
from_str_decimal_perm(s) ==
    LET fields == Split(s)
        ktype == IF IterNext(fields, 1) = None THEN None
                 ELSE LET r == KeyTypeTryFrom(IterNext(fields, 1)[1])
                      IN  IF r.ok THEN Some(r.val) ELSE None
        uid == IF IterNext(fields, 2) = None THEN None
               ELSE from_str_radix_ok(IterNext(fields, 2)[1], 10)
        gid == IF IterNext(fields, 3) = None THEN None
               ELSE from_str_radix_ok(IterNext(fields, 3)[1], 10)
        perms32 == IF IterNext(fields, 4) = None THEN None
                   ELSE from_str_radix_ok(IterNext(fields, 4)[1], 10)
        description == IterNext(fields, 5)
    IN  IF ktype = None THEN Err("InvalidDescription")
        ELSE IF uid = None THEN Err("InvalidDescription")
        ELSE IF gid = None THEN Err("InvalidDescription")
        ELSE IF perms32 = None THEN Err("InvalidDescription")
        ELSE IF description = None THEN Err("InvalidDescription")
        ELSE Ok([ktype |-> ktype[1], uid |-> uid[1], gid |-> gid[1],
                 perm |-> KeyPermissionsFromU32(perms32[1]),
                 description |-> description[1]])

\* impl FromStr for Metadata
from_str(s) ==
    LET fields == Split(s)
        ktype == IF IterNext(fields, 1) = None THEN None
                 ELSE LET r == KeyTypeTryFrom(IterNext(fields, 1)[1])
                      IN  IF r.ok THEN Some(r.val) ELSE None
        uid == IF IterNext(fields, 2) = None THEN None
               ELSE from_str_radix_ok(IterNext(fields, 2)[1], 10)
        gid == IF IterNext(fields, 3) = None THEN None
               ELSE from_str_radix_ok(IterNext(fields, 3)[1], 10)
        perms32 == IF IterNext(fields, 4) = None THEN None
                   ELSE from_str_radix_ok(IterNext(fields, 4)[1], 16)
        description == IterNext(fields, 5)
    IN  IF ktype = None THEN Err("InvalidDescription")
        ELSE IF uid = None THEN Err("InvalidDescription")
        ELSE IF gid = None THEN Err("InvalidDescription")
        ELSE IF perms32 = None THEN Err("InvalidDescription")
        ELSE IF description = None THEN Err("InvalidDescription")
        ELSE Ok([ktype |-> ktype[1], uid |-> uid[1], gid |-> gid[1],
                 perm |-> KeyPermissionsFromU32(perms32[1]),
                 description |-> description[1]])

\* x / 10 and x % 10: long division over the bytes
DivMod10(x) ==
    LET c1 == x[1]
        c2 == (c1 % 10) * 256 + x[2]
        c3 == (c2 % 10) * 256 + x[3]
        c4 == (c3 % 10) * 256 + x[4]
    IN  [q |-> <<c1 \div 10, c2 \div 10, c3 \div 10, c4 \div 10>>, r |-> c4 % 10]

RECURSIVE DecimalDigits(_)
DecimalDigits(x) ==
    IF x = <<0, 0, 0, 0>> THEN <<>>
    ELSE LET d == DivMod10(x) IN DecimalDigits(d.q) \o <<HexLower[d.r + 1]>>

\* a u32 in decimal
ToDecimal(x) == IF x = <<0, 0, 0, 0>> THEN <<"0">> ELSE DecimalDigits(x)

\* a u32 as eight hexadecimal digits ("%08x", "%08X")
ToHex8(x, table) ==
    <<table[(x[1] \div 16) + 1], table[(x[1] % 16) + 1],
      table[(x[2] \div 16) + 1], table[(x[2] % 16) + 1],
      table[(x[3] \div 16) + 1], table[(x[3] % 16) + 1],
      table[(x[4] \div 16) + 1], table[(x[4] % 16) + 1]>>

RECURSIVE StripLeadingZeros(_)
StripLeadingZeros(s) ==
    IF Len(s) > 1 /\ s[1] = "0" THEN StripLeadingZeros(Tail(s)) ELSE s

\* a u32 in hexadecimal, in one of three styles
ToHex(x, style) ==
    CASE style = "lower8" -> ToHex8(x, HexLower)
      [] style = "upper8" -> ToHex8(x, HexUpper)
      [] style = "short"  -> StripLeadingZeros(ToHex8(x, HexLower))

HexStyles == {"lower8", "upper8", "short"}

\* the descriptor of a key: type;uid;gid;perm;description, the type being the
\* tag the key was created with
Descriptor(in) ==
    CStrToBytes(KeyTypeCStr(in.ktype)) \o <<";">> \o ToDecimal(in.uid) \o <<";">>
    \o ToDecimal(in.gid) \o <<";">> \o ToHex(in.perm, in.hex) \o <<";">> \o in.desc

NoInput == [ktype |-> "none"]

NoResult == [via |-> "none"]

\* the length of the longest description a key is given here; the buffer
\* from_id hands to Describe is shorter
LongDescriptionLen == 600

\* 0, 1000, 65536, 2^31, 2^32 - 1
U32Sample ==
    {<<0, 0, 0, 0>>, <<0, 0, 3, 232>>, <<0, 1, 0, 0>>, <<128, 0, 0, 0>>,
     <<255, 255, 255, 255>>}

\* 0, the default 0x3f010000, one with every reserved bit, 0xffffffff
PermMaskSample ==
    {<<0, 0, 0, 0>>, <<63, 1, 0, 0>>, <<192, 192, 192, 192>>, <<255, 255, 255, 255>>}

\* descriptions without a ';': empty, the test's, one with a ':', a long one
DescriptionSample ==
    {<<>>, <<"m", "y", "-", "k", "e", "y">>, <<"a", ":", "b">>, [i \in 1..LongDescriptionLen |-> "a"]}

TypedInputs ==
    [ktype : KeyTypes, uid : U32Sample, gid : {<<0, 0, 3, 232>>, <<255, 255, 255, 255>>},
     perm : PermMaskSample, desc : DescriptionSample, hex : HexStyles]

\* fields a descriptor that was not written from a key may hold
RawTagFields == {<<"u", "s", "e", "r">>, <<"b", "i", "g", "_", "k", "e", "y">>, <<>>, <<"U", "s", "e", "r">>}

RawDecimalFields ==
    {<<"0">>, <<"1", "0", "0", "0">>, <<"4", "2", "9", "4", "9", "6", "7", "2", "9", "5">>, <<"4", "2", "9", "4", "9", "6", "7", "2", "9", "6">>, <<>>, <<"-", "1">>, <<"+", "7">>, <<"1", "a">>, <<"+">>}

RawGidFields == {<<"1", "0", "0", "0">>, <<>>, <<"4", "2", "9", "4", "9", "6", "7", "2", "9", "6">>}

RawHexFields ==
    {<<"3", "f", "0", "1", "0", "0", "0", "0">>, <<"F", "F", "F", "F", "F", "F", "F", "F">>, <<>>, <<"1", "0", "0", "0", "0", "0", "0", "0", "0">>, <<"g">>, <<"0", "x", "1", "f">>}

RawDescriptionFields == {<<>>, <<"m", "y", "-", "k", "e", "y">>, <<"k", BadByte>>}

RECURSIVE Join(_)
Join(fields) ==
    IF Len(fields) = 1 THEN fields[1]
    ELSE fields[1] \o <<";">> \o Join(Tail(fields))

\* descriptors of one to six fields
RawDescriptors ==
    {Join(<<t>>) : t \in RawTagFields}
    \cup {Join(<<t, u>>) : t \in {<<"u", "s", "e", "r">>}, u \in RawDecimalFields}
    \cup {Join(<<t, u, g>>) : t \in {<<"u", "s", "e", "r">>}, u \in {<<"1", "0", "0", "0">>}, g \in RawGidFields}
    \cup {Join(<<t, u, g, p>>) :
            t \in {<<"u", "s", "e", "r">>}, u \in {<<"1", "0", "0", "0">>}, g \in {<<"1", "0", "0", "0">>}, p \in RawHexFields}
    \cup {Join(<<t, u, g, p, d>>) :
            t \in RawTagFields, u \in RawDecimalFields, g \in RawGidFields,
            p \in RawHexFields, d \in RawDescriptionFields}
    \cup {Join(<<t, u, g, p, d, e>>) :
            t \in {<<"u", "s", "e", "r">>, <<"U", "s", "e", "r">>}, u \in {<<"1", "0", "0", "0">>, <<"-", "1">>}, g \in {<<"1", "0", "0", "0">>},
            p \in {<<"3", "f", "0", "1", "0", "0", "0", "0">>, <<"g">>}, d \in RawDescriptionFields, e \in {<<>>, <<"b">>}}

\* str::from_utf8 accepts the bytes
IsUtf8(bytes) == BadByte \notin {bytes[i] : i \in 1..Len(bytes)}

\* the buffer from_id hands to Describe: vec![0u8; 512]
DescribeBufLen == 512

\* KEYCTL_DESCRIBE into a buffer of buflen zero bytes. Linux reports the
\* length the descriptor needs, terminator included, and copies it only when
\* it fits ("kernel"); the other modes are the results the callers of this
\* code are told to expect: a failure with an errno, a zero length, a
\* descriptor without its terminator, and one with a byte after it.
DescribeModes == {"kernel", "zero", "no_nul", "interior"}

KeyctlDescribe(desc, buflen, mode) ==
    LET zeros == [i \in 1..buflen |-> NUL]
        Fill(bytes) == [i \in 1..buflen |-> IF i <= Len(bytes) THEN bytes[i] ELSE NUL]
    IN  CASE mode = "kernel" ->
               IF Len(desc) + 1 <= buflen
               THEN [ret |-> Len(desc) + 1, buf |-> Fill(desc)]
               ELSE [ret |-> Len(desc) + 1, buf |-> zeros]
          [] mode = "zero" -> [ret |-> 0, buf |-> zeros]
          [] mode = "no_nul" -> [ret |-> Len(desc), buf |-> Fill(desc)]
          [] mode = "interior" -> [ret |-> Len(desc) + 2, buf |-> Fill(desc)]

\* CStr::from_bytes_with_nul: the first 0 byte must be the last byte
CStrFromBytesWithNul(bytes) ==
    IF /\ Len(bytes) > 0
       /\ bytes[Len(bytes)] = NUL
       /\ \A i \in 1..(Len(bytes) - 1) : bytes[i] # NUL
    THEN Ok(bytes)
    ELSE Err("FromBytesWithNulError")

\* CStr::to_str
CStrToStr(cs) ==
    IF IsUtf8(CStrToBytes(cs)) THEN Ok(CStrToBytes(cs)) ELSE Err("Utf8Error")

Panic == [ok |-> FALSE, panic |-> TRUE]

\* Metadata::from_id, on what Describe returned into result
from_id(described) ==
    LET result == described.buf
        len == described.ret
    IN  IF len > Len(result) THEN Panic   \* &result[..len]
        ELSE LET cs == CStrFromBytesWithNul(SubSeq(result, 1, len))
             IN  IF ~cs.ok THEN Err("InvalidDescription")
                 ELSE LET st == CStrToStr(cs.val)
                      IN  IF ~st.ok THEN Err("InvalidDescription")
                          ELSE from_str(st.val)

\* a descriptor to parse: written for a key, or anything else
InitMetadata ==
    /\ \/ /\ mdInput \in TypedInputs
          /\ mdStr = Descriptor(mdInput)
       \/ /\ mdInput = NoInput
          /\ mdStr \in RawDescriptors
    /\ mdResult = NoResult
    /\ PermIdle
    /\ ErrIdle
    /\ KernelIdle
    /\ StoreIdle

\* s.parse::<Metadata>() on a &str
FromStr ==
    /\ mdResult = NoResult
    /\ IsUtf8(mdStr)
    /\ mdResult' = [via |-> "from_str", res |-> from_str(mdStr)]
    /\ UNCHANGED <<mdInput, mdStr, errno, outsideMeta>>

\* Metadata::from_id on a key with this descriptor
FromId(mode) ==
    /\ mdResult = NoResult
    /\ mode # "kernel" => Len(mdStr) + 2 <= DescribeBufLen
    /\ mdResult' = [via |-> "from_id", mode |-> mode,
                    res |-> from_id(KeyctlDescribe(mdStr, DescribeBufLen, mode))]
    /\ UNCHANGED <<mdInput, mdStr, errno, outsideMeta>>

\* Metadata::from_id on a key the kernel refuses to describe
FromIdFails(e) ==
    /\ mdResult = NoResult
    /\ errno' = e
    /\ mdResult' = [via |-> "from_id", mode |-> "fail", res |-> Err(from_errno(e))]
    /\ UNCHANGED <<mdInput, mdStr, outsideMeta>>

NextMetadata ==
    \/ FromStr
    \/ \E mode \in DescribeModes : FromId(mode)
    \/ \E e \in {EACCES, ENOKEY} : FromIdFails(e)

SpecMetadata == InitMetadata /\ [][NextMetadata]_vars

---------------------------------------------------------------------------
(* keyring.rs and key.rs, over the key store the kernel keeps behind       *)
(* add_key(2) and keyctl(2)                                                *)

\* enum KeyRingIdentifier
KeyRingIdentifier ==
    [Thread |-> -1, Process |-> -2, Session |-> -3, User |-> -4,
     UserSession |-> -5, Group |-> -6, ReqKeyAuthKey |-> -7]

SpecialIds == {KeyRingIdentifier[n] : n \in DOMAIN KeyRingIdentifier}

\* the special keyrings the kernel installs only when asked to create them
CreatedOnDemand == {KeyRingIdentifier.Thread, KeyRingIdentifier.Process}

\* the serial numbers the kernel hands out
MaxSerial == 4

Serials == 1..MaxSerial

\* the longest payload a caller adds, and the longest buffer a caller reads into
MaxPayloadLen == 2

MaxBufLen == 2

\* the payloads a caller adds: the empty one and one of each length, whose
\* bytes all differ so that a prefix of one is never another
PayloadOfLen(n) == [i \in 1..n |-> n - i + 1]

Payloads == {PayloadOfLen(n) : n \in 0..MaxPayloadLen}

\* the descriptions a caller passes to add_key, one with an interior NUL
DescriptionChoices == {<<"a">>, <<"b">>, <<"a", NUL, "b">>}

NoKey == [ktype |-> "none"]

\* a key is "valid" until it is invalidated ("invalid"), revoked ("revoked"),
\* negatively instantiated ("rejected") or its time runs out ("expired"); the
\* garbage collector then leaves it "dead". timer: a timeout is set on the key
KeyringRec(desc) ==
    [ktype |-> "keyring", description |-> desc, payload |-> <<>>, links |-> <<>>,
     state |-> "valid", timer |-> FALSE]

UserKeyRec(desc, data) ==
    [ktype |-> "user", description |-> desc, payload |-> data, links |-> <<>>,
     state |-> "valid", timer |-> FALSE]

\* the error a system call on a key in that state fails with, 0 if it is valid
KeyState(k) ==
    CASE k.state = "valid" -> 0
      [] k.state = "expired" -> EKEYEXPIRED
      [] k.state = "revoked" -> EKEYREVOKED
      [] k.state = "rejected" -> EKEYREJECTED
      [] OTHER -> ENOKEY

Live(n) == n \in Serials /\ keys[n] # NoKey /\ keys[n].state = "valid"

Zeros(n) == [i \in 1..n |-> 0]

\* the serial the kernel gives the next key
HasFreeSerial == \E n \in Serials : keys[n] = NoKey

FreeSerial == CHOOSE n \in Serials : keys[n] = NoKey /\ \A m \in 1..(n - 1) : keys[m] # NoKey

\* TryFrom<i64> for KeySerialId: the value must fit an i32
KeySerialIdTryFrom(n) ==
    IF -2147483647 - 1 <= n /\ n <= 2147483647 THEN Ok(n) ELSE Err("InvalidIdentifier")

\* CString::new(description): refused if the description holds a NUL
CStringNew(s) ==
    IF NUL \in {s[i] : i \in 1..Len(s)} THEN Err("NulError") ELSE Ok(s)

\* a session of the calling user: its session, user and user-session keyrings
\* exist, its thread and process keyrings do not yet
Init ==
    /\ keys = [n \in Serials |->
                 CASE n = 1 -> KeyringRec(<<"_", "s", "e", "s">>)
                   [] n = 2 -> KeyringRec(<<"_", "u", "i", "d">>)
                   [] n = 3 -> KeyringRec(<<"_", "u", "i", "d", "_", "s", "e", "s">>)
                   [] OTHER -> NoKey]
    /\ special = [id \in SpecialIds |->
                 CASE id = KeyRingIdentifier.Session -> 1
                   [] id = KeyRingIdentifier.User -> 2
                   [] id = KeyRingIdentifier.UserSession -> 3
                   [] OTHER -> 0]
    /\ rings = {}
    /\ handles = {}
    /\ ret = [op |-> "none"]
    /\ PermIdle
    /\ ErrIdle
    /\ MetaIdle
    /\ StoreIdle

\* KeyRing::from_special_id(id, create), with KEYCTL_GET_KEYRING_ID behind it.
\* The kernel creates a missing thread or process keyring when create is set,
\* refuses the group keyring, and reports ENOKEY for a keyring that is missing.
FromSpecialId(id, create) ==
    LET existed == special[id] # 0
        call(r) == [op |-> "from_special_id", id |-> id, create |-> create,
                    existed |-> existed, result |-> r]
        fails(e) ==
            /\ errno' = e
            /\ ret' = call(Err(from_errno(e)))
            /\ UNCHANGED <<keys, special, rings, handles>>
        returns(serial) ==
            LET converted == KeySerialIdTryFrom(serial)
            IN /\ ret' = call(converted)
               /\ rings' = IF converted.ok THEN rings \cup {converted.val} ELSE rings
               /\ UNCHANGED <<errno, handles>>
        creates == ~existed /\ create /\ id \in CreatedOnDemand
    IN /\ creates => HasFreeSerial
       /\ CASE id = KeyRingIdentifier.Group -> fails(EINVAL)
            [] id # KeyRingIdentifier.Group /\ existed ->
                 returns(special[id]) /\ UNCHANGED <<keys, special>>
            [] creates ->
                 /\ keys' = [keys EXCEPT ![FreeSerial] =
                               KeyringRec(IF id = KeyRingIdentifier.Thread
                                          THEN <<"_", "t", "i", "d">>
                                          ELSE <<"_", "p", "i", "d">>)]
                 /\ special' = [special EXCEPT ![id] = FreeSerial]
                 /\ returns(FreeSerial)
            [] OTHER -> fails(ENOKEY)
       /\ UNCHANGED outsideKernel

Linked(ring) == {keys[ring].links[i] : i \in 1..Len(keys[ring].links)}

\* the valid key of the given type and description that a keyring links to, if any
LinkedMatch(ring, ktype, desc) ==
    {n \in Linked(ring) : /\ keys[n].ktype = ktype
                          /\ keys[n].description = desc
                          /\ keys[n].state = "valid"}

\* a keyring holds one link per type and description: a new link displaces
\* the link to a key of the same type and description
LinkInto_lost(links, n, ktype, desc) ==
    LET same(m) == keys[m].ktype = ktype /\ keys[m].description = desc
    IN  SelectSeq(links, LAMBDA m : ~same(m))

LinkInto(links, n, ktype, desc) ==
    IF \E i \in 1..Len(links) : links[i] = n THEN links
    ELSE LET same(m) == keys[m].ktype = ktype /\ keys[m].description = desc
         IN  Append(SelectSeq(links, LAMBDA m : ~same(m)), n)

\* KeyRing::add_key(description, secret): ffi::add_key with KeyType::User.
\* The kernel refuses an empty payload for a user key, updates the key of
\* that type and description the keyring already links to, and otherwise
\* makes a new key and links it.
AddKey(ring, description, secret) ==
    LET cstring == CStringNew(description)
        matches == LinkedMatch(ring, "user", description)
        call(r) == [op |-> "add_key", ring |-> ring, description |-> description,
                    secret |-> secret, result |-> r]
        fails(e) ==
            /\ errno' = e
            /\ ret' = call(Err(from_errno(e)))
            /\ UNCHANGED <<keys, handles>>
        returns(serial) ==
            LET converted == KeySerialIdTryFrom(serial)
            IN /\ ret' = call(converted)
               /\ handles' = IF converted.ok THEN handles \cup {converted.val}
                             ELSE handles
               /\ UNCHANGED errno
        makes == cstring.ok /\ Len(secret) > 0 /\ matches = {}
    IN /\ ring \in rings
       /\ makes => HasFreeSerial
       /\ CASE ~cstring.ok ->
                 /\ ret' = call(Err("InvalidDescription"))
                 /\ UNCHANGED <<keys, handles, errno>>
            [] cstring.ok /\ Len(secret) = 0 -> fails(EINVAL)
            [] cstring.ok /\ Len(secret) > 0 /\ matches # {} ->
                 LET n == CHOOSE m \in matches : TRUE
                 IN /\ keys' = [keys EXCEPT ![n].payload = secret]
                    /\ returns(n)
            [] OTHER ->
                 /\ keys' = [keys EXCEPT
                               ![FreeSerial] = UserKeyRec(description, secret),
                               ![ring].links = LinkInto(@, FreeSerial, "user", description)]
                 /\ returns(FreeSerial)
       /\ UNCHANGED <<special, rings, outsideKernel>>

\* what KEYCTL_READ leaves in a zeroed buffer of buflen bytes: the payload
\* when it fits; when it does not, the kernel copies nothing or, before
\* Linux 5.7, the part that fits
BuffersAfterRead(payload, buflen) ==
    IF Len(payload) <= buflen
    THEN {payload \o Zeros(buflen - Len(payload))}
    ELSE {Zeros(buflen), SubSeq(payload, 1, buflen)}

\* the call before this one, if it wrote a payload: what a read right after
\* an add_key or an update is compared with
Written(call) ==
    IF call.op = "add_key" /\ call.result.ok
    THEN [op |-> "add_key", key |-> call.result.val, secret |-> call.secret]
    ELSE IF call.op = "update" /\ call.result.ok
    THEN [op |-> "update", key |-> call.key, secret |-> call.secret]
    ELSE [op |-> "other"]

\* Key::read(buffer): the length KEYCTL_READ returns, as a usize
Read(key, buflen) ==
    /\ key \in handles
    /\ keys[key] # NoKey
    /\ LET call(after, r) ==
               [op |-> "read", key |-> key, buflen |-> buflen,
                payload |-> keys[key].payload, buffer |-> after,
                result |-> r, follows |-> Written(ret)]
       IN  IF KeyState(keys[key]) # 0
           THEN /\ errno' = KeyState(keys[key])
                /\ ret' = call(Zeros(buflen), Err(from_errno(KeyState(keys[key]))))
           ELSE /\ \E after \in BuffersAfterRead(keys[key].payload, buflen) :
                     ret' = call(after, Ok(Len(keys[key].payload)))
                /\ UNCHANGED errno
    /\ UNCHANGED <<keys, special, rings, handles, outsideKernel>>

\* Vec::with_capacity(65536) in read_to_vec
ReadToVecCapacity == 65536

\* buffer.set_len(len) on a vector the kernel wrote data into: the first len
\* bytes; bytes past the data are uninitialized memory ("?")
VecSetLen_short(data, len) ==
    IF len <= 1 THEN <<>> ELSE SubSeq(data, 1, len - 1)

VecSetLen(data, len) ==
    IF len <= Len(data) THEN SubSeq(data, 1, len)
    ELSE data \o [i \in 1..(len - Len(data)) |-> "?"]

\* Key::read_to_vec(): KEYCTL_READ into a vector of 65536 bytes, which the
\* kernel fills when the payload fits, then set_len(len)
ReadToVec(key) ==
    /\ key \in handles
    /\ keys[key] # NoKey
    /\ LET payload == keys[key].payload
           data == IF Len(payload) <= ReadToVecCapacity THEN payload ELSE <<>>
           call(r) == [op |-> "read_to_vec", key |-> key, result |-> r,
                       follows |-> Written(ret)]
       IN  IF KeyState(keys[key]) # 0
           THEN /\ errno' = KeyState(keys[key])
                /\ ret' = call(Err(from_errno(KeyState(keys[key]))))
           ELSE /\ ret' = call(Ok(VecSetLen(data, Len(payload))))
                /\ UNCHANGED errno
    /\ UNCHANGED <<keys, special, rings, handles, outsideKernel>>

\* the keys KEYCTL_UPDATE works on: "A negatively instantiated key can be
\* positively instantiated with this operation"
Updatable_any(k) == k.state # "dead"

Updatable(k) == k.state \in {"valid", "rejected"}

\* Key::update(update): KEYCTL_UPDATE replaces the payload of a user key and
\* refuses an empty one
Update(key, update) ==
    /\ key \in handles
    /\ keys[key] # NoKey
    /\ LET call(r) == [op |-> "update", key |-> key, secret |-> update, result |-> r]
       IN  IF ~Updatable(keys[key])
           THEN /\ errno' = KeyState(keys[key])
                /\ ret' = call(Err(from_errno(KeyState(keys[key]))))
                /\ UNCHANGED keys
           ELSE IF Len(update) = 0
           THEN /\ errno' = EINVAL
                /\ ret' = call(Err(from_errno(EINVAL)))
                /\ UNCHANGED keys
           ELSE /\ keys' = [keys EXCEPT ![key].payload = update, ![key].state = "valid"]
                /\ ret' = call(Ok("unit"))
                /\ UNCHANGED errno
    /\ UNCHANGED <<special, rings, handles, outsideKernel>>

Next ==
    \/ \E id \in SpecialIds, create \in BOOLEAN : FromSpecialId(id, create)
    \/ \E ring \in Serials, description \in DescriptionChoices, secret \in Payloads :
         AddKey(ring, description, secret)
    \/ \E key \in Serials, buflen \in 0..MaxBufLen : Read(key, buflen)
    \/ \E key \in Serials : ReadToVec(key)
    \/ \E key \in Serials, update \in Payloads : Update(key, update)

Spec == Init /\ [][Next]_vars

---------------------------------------------------------------------------
(* keyring.rs and links.rs: the link graph                                 *)

\* the error a system call on key n fails with when n cannot be used, 0 if it can
KeyUnusable(n) ==
    IF n \notin Serials \/ keys[n] = NoKey THEN ENOKEY
    ELSE KeyState(keys[n])

\* the tag the kernel prints for a key's type
KernelTag(ktype) ==
    CASE ktype = "keyring" -> CStrToBytes(KeyTypeCStr("KeyRing"))
      [] ktype = "user" -> CStrToBytes(KeyTypeCStr("User"))
      [] ktype = "logon" -> CStrToBytes(KeyTypeCStr("Logon"))

\* what KEYCTL_DESCRIBE prints for a key of the calling user (uid and gid
\* 1000): "%s;%d;%d;%08x;%s", with the permissions keys and keyrings are made with
KeyDescriptor(k) ==
    KernelTag(k.ktype) \o <<";">> \o ToDecimal(<<0, 0, 3, 232>>) \o <<";">>
    \o ToDecimal(<<0, 0, 3, 232>>) \o <<";">>
    \o ToHex(IF k.ktype = "keyring" THEN <<63, 63, 0, 0>> ELSE <<63, 1, 0, 0>>, "lower8")
    \o <<";">> \o k.description

\* the descriptions keys have here
KernelDescriptions ==
    {<<"_", "s", "e", "s">>, <<"_", "u", "i", "d">>, <<"_", "u", "i", "d", "_", "s", "e", "s">>,
     <<"_", "t", "i", "d">>, <<"_", "p", "i", "d">>, <<"_", "p", "e", "r", "s">>,
     <<"l", ":", "x">>, <<"a">>, <<"b">>, [i \in 1..LongDescriptionLen |-> "a"]}

\* Metadata::from_id on a usable key of each type and description: what
\* KEYCTL_DESCRIBE writes into the buffer, read back by from_id
DescribedMetadata ==
    {<<k, from_id(KeyctlDescribe(KeyDescriptor(k), DescribeBufLen, "kernel"))>> :
        k \in [ktype : {"keyring", "user", "logon"}, description : KernelDescriptions]}

\* Metadata::from_id(id) against the kernel's keys
MetadataFromId(id) ==
    IF KeyUnusable(id) # 0 THEN Err(from_errno(KeyUnusable(id)))
    ELSE LET k == [ktype |-> keys[id].ktype, description |-> keys[id].description]
         IN  (CHOOSE described \in DescribedMetadata : described[1] = k)[2]

KeyNode(id) == [variant |-> "Key", id |-> id]

KeyRingNode(id) == [variant |-> "KeyRing", id |-> id]

\* LinkNode::from_id
LinkNodeFromId(id) ==
    LET metadata == MetadataFromId(id)
    IN  IF metadata = Panic THEN Panic
        ELSE IF ~metadata.ok THEN metadata
        ELSE CASE metadata.val.ktype = "KeyRing" -> Ok(KeyRingNode(id))
               [] metadata.val.ktype = "User" -> Ok(KeyNode(id))
               [] OTHER -> Err("OperationNotSupported")

\* impl PartialEq<Key> for LinkNode and impl PartialEq<KeyRing> for LinkNode
NodeEqKey_any(node, key) == node.id = key

NodeEqKey(node, key) == node.variant = "Key" /\ node.id = key

NodeEqKeyRing(node, ring) == node.variant = "KeyRing" /\ node.id = ring

\* size_of::<KeySerialId>()
KeySerialIdSize == 4

\* how many identifiers the kernel copies for KEYCTL_READ of a keyring of n
\* links into buflen bytes: all of them when they fit; when they do not,
\* none (since Linux 5.7) or the ones that fit
CopiedIds(n, buflen) ==
    IF n * KeySerialIdSize <= buflen THEN {n}
    ELSE {0, (buflen + KeySerialIdSize - 1) \div KeySerialIdSize}

\* the values an uninitialized KeySerialId of the vector is given here: one
\* that is no key's serial and one that may be
UninitIds == {0, MaxSerial}

\* buffer.iter().filter_map(|&id| LinkNode::from_id(id).ok()).collect():
\* the nodes of the ids that resolve, in order; a panic inside from_id ends it
RECURSIVE FilterMapNodes(_, _)
FilterMapNodes(ids, node) ==
    IF ids = <<>> THEN Ok(<<>>)
    ELSE LET first == node[Head(ids)]
         IN  IF first = Panic THEN Panic
             ELSE LET rest == FilterMapNodes(Tail(ids), node)
                  IN  IF rest = Panic THEN Panic
                      ELSE IF first.ok THEN Ok(<<first.val>> \o rest.val)
                      ELSE rest

\* KeyRing::get_links(max): a vector of capacity max, KEYCTL_READ told that
\* the buffer is capacity bytes long, set_len(len / 4), then filter_map
GetLinks(ring, max) ==
    /\ ring \in rings
    /\ LET call(entries, raw, types, r) ==
               [op |-> "get_links", ring |-> ring, max |-> max,
                read |-> KeyUnusable(ring) = 0, entries |-> entries, raw |-> raw,
                types |-> types, result |-> r]
       IN  IF KeyUnusable(ring) # 0
           THEN /\ errno' = KeyUnusable(ring)
                /\ ret' = call(<<>>, <<>>, <<>>, Err(from_errno(KeyUnusable(ring))))
           ELSE LET entries == keys[ring].links
                    capacity == max
                    len == Len(entries) * KeySerialIdSize
                    set_len == len \div KeySerialIdSize
                    ids == UninitIds \cup Linked(ring)
                    node == [id \in ids |-> LinkNodeFromId(id)]
                    types == [id \in ids |-> IF KeyUnusable(id) # 0 THEN "unusable"
                                             ELSE keys[id].ktype]
                IN  /\ \E copied \in CopiedIds(Len(entries), capacity) :
                       \E rest \in [1..(set_len - copied) -> UninitIds] :
                          LET raw == SubSeq(entries, 1, copied) \o rest
                          IN  ret' = call(entries, raw, types, FilterMapNodes(raw, node))
                    /\ UNCHANGED errno
    /\ UNCHANGED <<keys, special, rings, handles, outsideKernel>>

\* KeyRing::link_key(key): KEYCTL_LINK
LinkKey(ring, key) ==
    /\ ring \in rings
    /\ key \in handles
    /\ LET call(r) == [op |-> "link_key", ring |-> ring, key |-> key, result |-> r]
           e == IF KeyUnusable(key) # 0 THEN KeyUnusable(key) ELSE KeyUnusable(ring)
       IN  IF e # 0
           THEN /\ errno' = e
                /\ ret' = call(Err(from_errno(e)))
                /\ UNCHANGED keys
           ELSE /\ keys' = [keys EXCEPT ![ring].links =
                              LinkInto(@, key, keys[key].ktype, keys[key].description)]
                /\ ret' = call(Ok("unit"))
                /\ UNCHANGED errno
    /\ UNCHANGED <<special, rings, handles, outsideKernel>>

\* KeyRing::unlink_key(key): KEYCTL_UNLINK, which fails with ENOENT (2) for a
\* key the keyring does not link to
UnlinkKey(ring, key) ==
    /\ ring \in rings
    /\ key \in handles
    /\ LET call(r) == [op |-> "unlink_key", ring |-> ring, key |-> key, result |-> r]
           e == IF keys[key] = NoKey \/ keys[key].state = "dead" THEN ENOKEY
                ELSE IF KeyUnusable(ring) # 0 THEN KeyUnusable(ring)
                ELSE IF key \notin Linked(ring) THEN 2
                ELSE 0
       IN  IF e # 0
           THEN /\ errno' = e
                /\ ret' = call(Err(from_errno(e)))
                /\ UNCHANGED keys
           ELSE /\ keys' = [keys EXCEPT ![ring].links = SelectSeq(@, LAMBDA m : m # key)]
                /\ ret' = call(Ok("unit"))
                /\ UNCHANGED errno
    /\ UNCHANGED <<special, rings, handles, outsideKernel>>

\* Key::invalidate(): KEYCTL_INVALIDATE marks the key; its links stay until
\* the garbage collector has run
Invalidate(key) ==
    /\ key \in handles
    /\ LET call(r) == [op |-> "invalidate", key |-> key, result |-> r]
       IN  IF KeyUnusable(key) # 0
           THEN /\ errno' = KeyUnusable(key)
                /\ ret' = call(Err(from_errno(KeyUnusable(key))))
                /\ UNCHANGED keys
           ELSE /\ keys' = [keys EXCEPT ![key].state = "invalid"]
                /\ ret' = call(Ok("unit"))
                /\ UNCHANGED errno
    /\ UNCHANGED <<special, rings, handles, outsideKernel>>

\* the keys the caller's special keyrings do not pin and no keyring links to
Unreferenced(n) ==
    /\ \A id \in DOMAIN special : special[id] # n
    /\ \A r \in Serials : keys[r] = NoKey \/ n \notin Linked(r)

\* the kernel's garbage collector: it removes the links to keys that are
\* invalidated or expired, and destroys those keys and the keys nothing
\* refers to any more
CollectGarbage ==
    LET doomed == {n \in Serials : /\ keys[n] # NoKey
                                   /\ keys[n].state # "dead"
                                   /\ \/ keys[n].state \in {"invalid", "expired"}
                                      \/ Unreferenced(n)}
    IN  /\ doomed # {}
        /\ keys' = [n \in Serials |->
                      IF keys[n] = NoKey THEN NoKey
                      ELSE IF n \in doomed
                      THEN [keys[n] EXCEPT !.state = "dead", !.links = <<>>, !.payload = <<>>]
                      ELSE [keys[n] EXCEPT !.links = SelectSeq(@, LAMBDA m : m \notin doomed)]]
        /\ UNCHANGED <<special, rings, handles, ret, errno, outsideKernel>>

\* the keys a search of the tree under the keyrings of frontier meets, level
\* by level: the matches of the first level that has any, and whether a
\* matching key that is no longer valid was passed over
RECURSIVE SearchTree(_, _, _)
SearchTree(frontier, seen, desc) ==
    LET usable == {r \in frontier : KeyUnusable(r) = 0}
        linked == UNION {Linked(r) : r \in usable}
        named == {n \in linked : keys[n].ktype = "user" /\ keys[n].description = desc}
        found == {n \in named : keys[n].state = "valid"}
        deeper == {n \in linked : keys[n].ktype = "keyring"} \ (seen \cup frontier)
    IN  IF found # {} THEN [found |-> found, stale |-> FALSE]
        ELSE IF deeper = {} THEN [found |-> {}, stale |-> named # {}]
        ELSE LET below == SearchTree(deeper, seen \cup frontier, desc)
             IN  [found |-> below.found, stale |-> below.stale \/ named # {}]

\* the errors decode_error turns into NoEntry
NoEntryErrors == {"KeyDoesNotExist", "AccessDenied", "KeyRevoked", "KeyExpired"}

\* KeyRing::search(description): KEYCTL_SEARCH for a key of type user
Search(ring, description) ==
    /\ ring \in rings
    /\ LET cstring == CStringNew(description)
           tree == IF KeyUnusable(ring) = 0 THEN SearchTree({ring}, {}, description)
                   ELSE [found |-> {}, stale |-> FALSE]
           call(r) == [op |-> "search", ring |-> ring, description |-> description,
                       live |-> tree.found, result |-> r]
           fails(e) ==
               /\ errno' = e
               /\ ret' = call(Err(from_errno(e)))
               /\ UNCHANGED handles
       IN  CASE ~cstring.ok ->
                  /\ ret' = call(Err("InvalidDescription"))
                  /\ UNCHANGED <<handles, errno>>
             [] cstring.ok /\ KeyUnusable(ring) # 0 -> fails(KeyUnusable(ring))
             [] cstring.ok /\ KeyUnusable(ring) = 0 /\ tree.found # {} ->
                  \E id \in tree.found :
                     LET converted == KeySerialIdTryFrom(id)
                     IN  /\ ret' = call(converted)
                         /\ handles' = IF converted.ok THEN handles \cup {converted.val}
                                       ELSE handles
                         /\ UNCHANGED errno
             [] OTHER ->
                  \E e \in IF tree.stale THEN {ENOKEY, EKEYREVOKED} ELSE {ENOKEY} : fails(e)
    /\ UNCHANGED <<keys, special, rings, outsideKernel>>

\* the descriptions given to add_key and search here: a short one and one
\* whose descriptor does not fit the buffer Metadata::from_id describes into
LinkDescriptions == {<<"a">>, [i \in 1..LongDescriptionLen |-> "a"]}

\* the capacities asked of get_links: none, one, four (the bytes of one
\* identifier) and the tests' 200
LinksAsked == {0, 1, 4, 200}

\* a session whose session keyring links to the user keyring and to a logon
\* key another program left there; the program holds both keyrings
InitLinks ==
    /\ keys = [n \in Serials |->
                 CASE n = 1 -> [KeyringRec(<<"_", "s", "e", "s">>) EXCEPT !.links = <<2, 3>>]
                   [] n = 2 -> KeyringRec(<<"_", "u", "i", "d">>)
                   [] n = 3 -> [ktype |-> "logon", description |-> <<"l", ":", "x">>,
                                payload |-> <<1>>, links |-> <<>>, state |-> "valid",
                                timer |-> FALSE]
                   [] OTHER -> NoKey]
    /\ special = [id \in SpecialIds |->
                 CASE id = KeyRingIdentifier.Session -> 1
                   [] id = KeyRingIdentifier.User -> 2
                   [] OTHER -> 0]
    /\ rings = {1, 2}
    /\ handles = {}
    /\ ret = [op |-> "none"]
    /\ PermIdle
    /\ ErrIdle
    /\ MetaIdle
    /\ StoreIdle

NextLinks ==
    \/ \E ring \in Serials, description \in LinkDescriptions :
         AddKey(ring, description, <<1>>)
    \/ \E ring \in Serials, key \in Serials : LinkKey(ring, key)
    \/ \E ring \in Serials, key \in Serials : UnlinkKey(ring, key)
    \/ \E key \in Serials : Invalidate(key)
    \/ CollectGarbage
    \/ \E ring \in Serials, description \in LinkDescriptions : Search(ring, description)
    \/ \E ring \in Serials, max \in LinksAsked : GetLinks(ring, max)

SpecLinks == InitLinks /\ [][NextLinks]_vars

---------------------------------------------------------------------------
(* links.rs: Links, a vector of LinkNodes                                  *)

\* the identifiers nodes and entries wrap here, and the longest Links
MaxNodeId == 2

MaxLinks == 3

NodeIds == 1..MaxNodeId

LinkNodes == {KeyNode(id) : id \in NodeIds} \cup {KeyRingNode(id) : id \in NodeIds}

\* the &Key and &KeyRing values asked about
LinkEntries == [type : {"Key", "KeyRing"}, id : NodeIds]

LinksChoices == UNION {[1..n -> LinkNodes] : n \in 0..MaxLinks}

\* v == entry for a LinkNode v: the PartialEq impl of the entry's type
NodeEq(node, entry) ==
    IF entry.type = "Key" THEN NodeEqKey(node, entry.id)
    ELSE NodeEqKeyRing(node, entry.id)

\* Links::get: self.0.iter().find(|v| *v == entry)
LinksGet(links, entry) ==
    LET hits == {i \in 1..Len(links) : NodeEq(links[i], entry)}
    IN  IF hits = {} THEN None
        ELSE Some(links[CHOOSE i \in hits : \A j \in hits : i <= j])

\* Links::contains: self.0.iter().any(|v| v == entry)
LinksContains(links, entry) ==
    \E i \in 1..Len(links) : NodeEq(links[i], entry)

\* Links::new(inner)
InitNodes ==
    /\ \E inner \in LinksChoices : ret = [op |-> "new", links |-> inner]
    /\ keys = <<>>
    /\ special = <<>>
    /\ rings = {}
    /\ handles = {}
    /\ PermIdle
    /\ ErrIdle
    /\ MetaIdle
    /\ StoreIdle

CallLinksGet(entry) ==
    /\ ret' = [op |-> "get", links |-> ret.links, entry |-> entry,
               result |-> LinksGet(ret.links, entry)]
    /\ UNCHANGED <<keys, special, rings, handles, errno, outsideKernel>>

CallLinksContains(entry) ==
    /\ ret' = [op |-> "contains", links |-> ret.links, entry |-> entry,
               result |-> LinksContains(ret.links, entry)]
    /\ UNCHANGED <<keys, special, rings, handles, errno, outsideKernel>>

NextNodes ==
    \/ \E entry \in LinkEntries : CallLinksGet(entry)
    \/ \E entry \in LinkEntries : CallLinksContains(entry)

SpecNodes == InitNodes /\ [][NextNodes]_vars

---------------------------------------------------------------------------
(* keystore.rs: KeyutilsCredential, the credential of the keyring crate     *)

\* what the credential's operations leave alone
outsideStore == <<special, rings, handles, permVars, keyError, metaVars, raceVars>>

\* keyring::error::Error
NoEntry == [code |-> "NoEntry"]

Invalid(attribute, why) == [code |-> "Invalid", attribute |-> attribute, reason |-> why]

PlatformFailure(err) == [code |-> "PlatformFailure", source |-> err]

BadEncoding(bytes) == [code |-> "BadEncoding", bytes |-> bytes]

\* decode_error, on the KeyErrors that have a name
decode_error_revoked(err) ==
    IF err \in NoEntryErrors \ {"KeyRevoked"} THEN NoEntry
    ELSE IF err = "InvalidDescription" THEN Invalid("description", "rejected by platform")
    ELSE IF err = "InvalidArguments" THEN Invalid("password", "rejected by platform")
    ELSE PlatformFailure(err)

decode_error_missing(err) ==
    IF err \in NoEntryErrors \ {"KeyDoesNotExist"} THEN NoEntry
    ELSE IF err = "InvalidDescription" THEN Invalid("description", "rejected by platform")
    ELSE IF err = "InvalidArguments" THEN Invalid("password", "rejected by platform")
    ELSE PlatformFailure(err)

decode_error_rejected(err) ==
    IF err \in NoEntryErrors \/ err = "KeyRejected" THEN NoEntry
    ELSE IF err = "InvalidDescription" THEN Invalid("description", "rejected by platform")
    ELSE IF err = "InvalidArguments" THEN Invalid("password", "rejected by platform")
    ELSE PlatformFailure(err)

decode_error(err) ==
    IF err \in NoEntryErrors THEN NoEntry
    ELSE IF err = "InvalidDescription" THEN Invalid("description", "rejected by platform")
    ELSE IF err = "InvalidArguments" THEN Invalid("password", "rejected by platform")
    ELSE PlatformFailure(err)

\* the characters of passwords here and their UTF-8 encodings
Utf8 ==
    [p |-> <<112>>, x01 |-> <<1>>, x02 |-> <<2>>, e_acute |-> <<195, 169>>]

\* str::as_bytes
RECURSIVE as_bytes(_)
as_bytes(str) ==
    IF str = <<>> THEN <<>> ELSE Utf8[Head(str)] \o as_bytes(Tail(str))

\* String::from_utf8 over those characters; a byte that starts none of them,
\* or a 195 that 169 does not follow, is refused
RECURSIVE from_utf8(_)
from_utf8(bytes) ==
    IF bytes = <<>> THEN Ok(<<>>)
    ELSE LET starts == {c \in DOMAIN Utf8 :
                          /\ Len(Utf8[c]) <= Len(bytes)
                          /\ SubSeq(bytes, 1, Len(Utf8[c])) = Utf8[c]}
         IN  IF starts = {} THEN Err("FromUtf8Error")
             ELSE LET c == CHOOSE x \in starts : TRUE
                      rest == from_utf8(SubSeq(bytes, Len(Utf8[c]) + 1, Len(bytes)))
                  IN  IF rest.ok THEN Ok(<<c>> \o rest.val) ELSE rest

\* keyring::error::decode_password
decode_password(bytes) ==
    IF from_utf8(bytes).ok THEN from_utf8(bytes) ELSE Err(BadEncoding(bytes))

\* the description of the user's persistent keyring
PersistentDescription == <<"_", "p", "e", "r", "s">>

\* the user's persistent keyring, while it has not expired
PersistentRings ==
    {n \in Serials : /\ keys[n] # NoKey
                     /\ keys[n].ktype = "keyring"
                     /\ keys[n].description = PersistentDescription
                     /\ keys[n].state = "valid"}

\* format!("keyring-rs:{user}@{service}")
DefaultDescription(service, user) ==
    <<"k", "e", "y", "r", "i", "n", "g", "-", "r", "s", ":">> \o user \o <<"@">> \o service

\* the targets, services and users credentials are built for here
Targets == {None, Some(<<>>), Some(<<"a", NUL, "b">>)}

Services == {<<"s">>}

Users == {<<"u">>}

\* the secrets and passwords set here; the secret <<195>> is not UTF-8
Secrets == {<<>>, <<1>>, <<195>>}

Passwords == {<<>>, <<"x01">>}

\* KeyutilsCredential::new_with_target(target, service, user): the session
\* keyring, then KeyRing::get_persistent(Session).ok(), then the description.
\* KEYCTL_GET_PERSISTENT finds or makes the user's persistent keyring and
\* links it into the session keyring, unless the kernel refuses.
new_with_target(target, service, user) ==
    LET session_id == special[KeyRingIdentifier.Session]
        call(r) == [op |-> "new_with_target", target |-> target, result |-> r]
        description == IF target = None THEN DefaultDescription(service, user)
                       ELSE target[1]
        built(persistent) ==
            IF target = Some(<<>>)
            THEN /\ ret' = call(Err(Invalid("target", "cannot be empty")))
                 /\ UNCHANGED <<credential, stored>>
            ELSE /\ credential' = [built |-> TRUE, session |-> session_id,
                                   persistent |-> persistent,
                                   description |-> description]
                 /\ stored' = None
                 /\ ret' = call(Ok("credential"))
    IN  IF session_id = 0 \/ KeyUnusable(session_id) # 0
        THEN /\ errno' = ENOKEY
             /\ ret' = call(Err(decode_error(from_errno(ENOKEY))))
             /\ UNCHANGED <<keys, credential, stored>>
        ELSE \E granted \in BOOLEAN :
                IF ~granted
                THEN /\ errno' = ENOTSUP
                     /\ UNCHANGED keys
                     /\ built(None)
                ELSE /\ PersistentRings = {} => HasFreeSerial
                     /\ LET id == IF PersistentRings # {}
                                  THEN CHOOSE n \in PersistentRings : TRUE
                                  ELSE FreeSerial
                            made == [keys EXCEPT ![id] =
                                       IF PersistentRings # {} THEN @
                                       ELSE KeyringRec(PersistentDescription)]
                        IN  /\ keys' = [made EXCEPT ![session_id].links =
                                          LinkInto(@, id, "keyring", PersistentDescription)]
                            /\ built(Some(id))
                     /\ UNCHANGED errno

NewWithTarget(target, service, user) ==
    new_with_target(target, service, user) /\ UNCHANGED outsideStore

\* what KeyRing::search(description) can return
SearchOutcomes(ring, description) ==
    LET tree == SearchTree({ring}, {}, description)
    IN  IF ~CStringNew(description).ok THEN {Err("InvalidDescription")}
        ELSE IF KeyUnusable(ring) # 0 THEN {Err(from_errno(KeyUnusable(ring)))}
        ELSE IF tree.found # {} THEN {KeySerialIdTryFrom(id) : id \in tree.found}
        ELSE IF tree.stale THEN {Err(from_errno(ENOKEY)), Err(from_errno(EKEYREVOKED))}
        ELSE {Err(from_errno(ENOKEY))}

\* the errno of the system call behind an Err
ErrnoOf(err) ==
    CASE err = "KeyDoesNotExist" -> ENOKEY
      [] err = "KeyRevoked" -> EKEYREVOKED
      [] err = "KeyExpired" -> EKEYEXPIRED
      [] err = "InvalidArguments" -> EINVAL
      [] OTHER -> errno

\* add_key on a keyring that links to a key of that type and description
\* already: the key's payload is replaced
UpdatedKey_kept(key, secret) == key

UpdatedKey(key, secret) == [key EXCEPT !.payload = secret]

\* the system calls of set_secret
add_and_link(op, secret) ==
    /\ credential.built
    /\ LET description == credential.description
           session == credential.session
           persistent == credential.persistent
           cstring == CStringNew(description)
           matches == LinkedMatch(session, "user", description)
           makes == cstring.ok /\ KeyUnusable(session) = 0 /\ Len(secret) > 0 /\ matches = {}
           key == IF matches # {} THEN CHOOSE m \in matches : TRUE ELSE FreeSerial
           call(calls, r) == [op |-> op, secret |-> secret, calls |-> calls,
                              changed |-> keys' # keys, result |-> r]
           fails(calls, err) ==
               /\ ret' = call(calls, Err(decode_error(err)))
               /\ errno' = ErrnoOf(err)
               /\ stored' = None
           added == [keys EXCEPT
                       ![key] = IF matches # {} THEN UpdatedKey(@, secret)
                                ELSE UserKeyRec(description, secret),
                       ![session].links = LinkInto(@, key, "user", description)]
       IN  /\ makes => HasFreeSerial
           /\ CASE ~cstring.ok ->
                     /\ UNCHANGED keys
                     /\ fails(<<>>, "InvalidDescription")
                [] cstring.ok /\ KeyUnusable(session) # 0 ->
                     /\ UNCHANGED keys
                     /\ fails(<<"add_key">>, from_errno(KeyUnusable(session)))
                [] cstring.ok /\ KeyUnusable(session) = 0 /\ Len(secret) = 0 ->
                     /\ UNCHANGED keys
                     /\ fails(<<"add_key">>, from_errno(EINVAL))
                [] OTHER ->
                     IF persistent = None
                     THEN /\ keys' = added
                          /\ ret' = call(<<"add_key">>, Ok("unit"))
                          /\ stored' = Some(secret)
                          /\ UNCHANGED errno
                     ELSE IF KeyUnusable(persistent[1]) # 0
                     THEN /\ keys' = added
                          /\ fails(<<"add_key", "link_key">>,
                                   from_errno(KeyUnusable(persistent[1])))
                     ELSE /\ keys' = [added EXCEPT ![persistent[1]].links =
                                        LinkInto(@, key, "user", description)]
                          /\ ret' = call(<<"add_key", "link_key">>, Ok("unit"))
                          /\ stored' = Some(secret)
                          /\ UNCHANGED errno
    /\ UNCHANGED <<credential, outsideStore>>

\* KeyutilsCredential::set_secret(secret): an empty secret is refused before
\* any system call; otherwise add_key into the session keyring, then
\* link_key into the persistent keyring if the credential has one
set_secret_never_refuses(op, secret) == add_and_link(op, secret)

set_secret(op, secret) ==
    IF Len(secret) = 0
    THEN /\ credential.built
         /\ ret' = [op |-> op, secret |-> secret, calls |-> <<>>, changed |-> FALSE,
                    result |-> Err(Invalid("secret", "cannot be empty"))]
         /\ UNCHANGED <<keys, errno, credential, stored, outsideStore>>
    ELSE add_and_link(op, secret)

SetSecret(secret) == set_secret("set_secret", secret)

\* KeyutilsCredential::set_password(password)
SetPassword(password) == set_secret("set_password", as_bytes(password))

\* the valid user keys of a description
LiveKeys(description) ==
    {n \in Serials : /\ keys[n] # NoKey
                     /\ keys[n].ktype = "user"
                     /\ keys[n].description = description
                     /\ keys[n].state = "valid"}

\* the system calls of get_secret, in the order of its statements
GetSecretCalls_read_first(persistent) ==
    IF persistent = None THEN <<"search", "read", "link_key">>
    ELSE <<"search", "read", "link_key", "link_key">>

GetSecretCalls(persistent) ==
    IF persistent = None THEN <<"search", "link_key", "read">>
    ELSE <<"search", "link_key", "link_key", "read">>

\* KeyutilsCredential::get_secret(): search the session keyring, link_key
\* into the session keyring, link_key into the persistent keyring if the
\* credential has one, then read_to_vec; each step returns its error.
\* get_password decodes what get_secret returned.
get_secret(op) ==
    /\ credential.built
    /\ LET description == credential.description
           session == credential.session
           persistent == credential.persistent
           live == LiveKeys(description)
           order == GetSecretCalls(persistent)
           in_session == KeyUnusable(session) = 0 /\ live \cap Linked(session) # {}
           in_persistent ==
               /\ KeyUnusable(session) = 0
               /\ \E p \in PersistentRings \cap Linked(session) : live \cap Linked(p) # {}
           decoded(r) == IF op = "get_password" /\ r.ok THEN decode_password(r.val) ELSE r
       IN  \E found \in SearchOutcomes(session, description) :
              LET key == found.val
                  payload == IF found.ok THEN keys[key].payload ELSE <<>>
                  call(calls, r) ==
                      [op |-> op, description |-> description, calls |-> calls,
                       found |-> found, payload |-> payload, live |-> live, in_session |-> in_session,
                       in_persistent |-> in_persistent, result |-> decoded(r)]
                  fails(calls, err) ==
                      /\ ret' = call(calls, Err(decode_error(err)))
                      /\ errno' = ErrnoOf(err)
                  data == IF Len(payload) <= ReadToVecCapacity THEN payload ELSE <<>>
                  buffer == Ok(VecSetLen(data, Len(payload)))
                  relinked == [keys EXCEPT ![session].links =
                                 LinkInto(@, key, "user", description)]
              IN  IF ~found.ok
                  THEN /\ UNCHANGED keys
                       /\ fails(IF found.err = "InvalidDescription" THEN <<>>
                                ELSE SubSeq(order, 1, 1), found.err)
                  ELSE IF persistent = None
                  THEN /\ keys' = relinked
                       /\ ret' = call(order, buffer)
                       /\ UNCHANGED errno
                  ELSE IF KeyUnusable(persistent[1]) # 0
                  THEN /\ keys' = relinked
                       /\ fails(SubSeq(order, 1, 3),
                                from_errno(KeyUnusable(persistent[1])))
                  ELSE /\ keys' = [relinked EXCEPT ![persistent[1]].links =
                                     LinkInto(@, key, "user", description)]
                       /\ ret' = call(order, buffer)
                       /\ UNCHANGED errno
    /\ UNCHANGED <<credential, stored, outsideStore>>

GetSecret == get_secret("get_secret")

\* KeyutilsCredential::get_password()
GetPassword == get_secret("get_password")

\* KeyutilsCredential::delete_credential(): search, then invalidate
DeleteCredential ==
    /\ credential.built
    /\ \E found \in SearchOutcomes(credential.session, credential.description) :
          LET call(r) == [op |-> "delete_credential", found |-> found, result |-> r]
          IN  IF ~found.ok
              THEN /\ ret' = call(Err(decode_error(found.err)))
                   /\ errno' = ErrnoOf(found.err)
                   /\ UNCHANGED keys
              ELSE /\ keys' = [keys EXCEPT ![found.val].state = "invalid"]
                   /\ ret' = call(Ok("unit"))
                   /\ UNCHANGED errno
    /\ stored' = None
    /\ UNCHANGED <<credential, outsideStore>>

\* the persistent keyring's timer runs out
ExpirePersistent ==
    /\ \E p \in PersistentRings : keys' = [keys EXCEPT ![p].state = "expired"]
    /\ stored' = None
    /\ UNCHANGED <<ret, errno, credential, outsideStore>>

\* the user logs out and in again: a new session keyring, and a new process
\* that has built no credential yet
NewSession ==
    /\ HasFreeSerial
    /\ keys' = [keys EXCEPT ![FreeSerial] = KeyringRec(<<"_", "s", "e", "s">>)]
    /\ special' = [special EXCEPT ![KeyRingIdentifier.Session] = FreeSerial]
    /\ credential' = [built |-> FALSE]
    /\ stored' = None
    /\ UNCHANGED <<ret, errno, rings, handles, permVars, keyError, metaVars, raceVars>>

\* a login session of the user: the session keyring, no credential built
InitKeystore ==
    /\ keys = [n \in Serials |->
                 IF n = 1 THEN KeyringRec(<<"_", "s", "e", "s">>) ELSE NoKey]
    /\ special = [id \in SpecialIds |->
                    IF id = KeyRingIdentifier.Session THEN 1 ELSE 0]
    /\ rings = {}
    /\ handles = {}
    /\ ret = [op |-> "none"]
    /\ PermIdle
    /\ ErrIdle
    /\ MetaIdle
    /\ StoreIdle

NextKeystore ==
    \/ \E target \in Targets, service \in Services, user \in Users :
          NewWithTarget(target, service, user)
    \/ \E secret \in Secrets : SetSecret(secret)
    \/ \E password \in Passwords : SetPassword(password)
    \/ GetSecret
    \/ GetPassword
    \/ DeleteCredential
    \/ ExpirePersistent
    \/ NewSession
    \/ CollectGarbage

SpecKeystore == InitKeystore /\ [][NextKeystore]_vars

\* the session keyring is revoked (keyctl revoke @s, or the end of the login
\* session that made it)
RevokeSession ==
    /\ KeyUnusable(special[KeyRingIdentifier.Session]) = 0
    /\ keys' = [keys EXCEPT ![special[KeyRingIdentifier.Session]].state = "revoked"]
    /\ stored' = None
    /\ UNCHANGED <<ret, errno, credential, outsideStore>>

\* credentials built while login sessions come and go
NextSession ==
    \/ \E target \in Targets, service \in Services, user \in Users :
          NewWithTarget(target, service, user)
    \/ RevokeSession
    \/ ExpirePersistent
    \/ NewSession
    \/ CollectGarbage

SpecSession == InitKeystore /\ [][NextSession]_vars

---------------------------------------------------------------------------
(* key.rs: the life of a key                                               *)

\* the timeouts given to set_timeout and reject: none and one second
Seconds == {0, 1}

\* the permission masks given to set_perms: none and everything
PermMasks == {0, 1061109567}

\* Key::set_perms(perm): KEYCTL_SETPERM
SetPerms(key, perm) ==
    /\ key \in handles
    /\ LET call(r) == [op |-> "set_perms", key |-> key, perm |-> perm, result |-> r]
       IN  IF KeyUnusable(key) # 0
           THEN /\ errno' = KeyUnusable(key)
                /\ ret' = call(Err(from_errno(KeyUnusable(key))))
           ELSE /\ ret' = call(Ok("unit"))
                /\ UNCHANGED errno
    /\ UNCHANGED <<keys, special, rings, handles, outsideKernel>>

\* Key::set_timeout(seconds): KEYCTL_SET_TIMEOUT; 0 clears the timeout. "This
\* operation cannot be used to set timeouts on revoked, expired, or
\* negatively instantiated keys."
SetTimeout(key, seconds) ==
    /\ key \in handles
    /\ LET call(r) == [op |-> "set_timeout", key |-> key, seconds |-> seconds, result |-> r]
       IN  IF KeyUnusable(key) # 0
           THEN /\ errno' = KeyUnusable(key)
                /\ ret' = call(Err(from_errno(KeyUnusable(key))))
                /\ UNCHANGED keys
           ELSE /\ keys' = [keys EXCEPT ![key].timer = seconds > 0]
                /\ ret' = call(Ok("unit"))
                /\ UNCHANGED errno
    /\ UNCHANGED <<special, rings, handles, outsideKernel>>

\* Key::revoke(): KEYCTL_REVOKE
Revoke(key) ==
    /\ key \in handles
    /\ LET call(r) == [op |-> "revoke", key |-> key, result |-> r]
       IN  IF KeyUnusable(key) # 0
           THEN /\ errno' = KeyUnusable(key)
                /\ ret' = call(Err(from_errno(KeyUnusable(key))))
                /\ UNCHANGED keys
           ELSE /\ keys' = [keys EXCEPT ![key].state = "revoked"]
                /\ ret' = call(Ok("unit"))
                /\ UNCHANGED errno
    /\ UNCHANGED <<special, rings, handles, outsideKernel>>

\* Key::reject(seconds): KEYCTL_REJECT with EKEYREJECTED: "Mark a key as
\* negatively instantiated and set an expiration timer on the key."
Reject(key, seconds) ==
    /\ key \in handles
    /\ LET call(r) == [op |-> "reject", key |-> key, seconds |-> seconds, result |-> r]
       IN  IF KeyUnusable(key) # 0
           THEN /\ errno' = KeyUnusable(key)
                /\ ret' = call(Err(from_errno(KeyUnusable(key))))
                /\ UNCHANGED keys
           ELSE /\ keys' = [keys EXCEPT ![key].state = "rejected", ![key].timer = TRUE]
                /\ ret' = call(Ok("unit"))
                /\ UNCHANGED errno
    /\ UNCHANGED <<special, rings, handles, outsideKernel>>

\* the timeout of a key runs out: "Subsequent attempts to access the key
\* will then fail with the error EKEYEXPIRED."
TimerElapses(key) ==
    /\ keys[key] # NoKey
    /\ keys[key].timer
    /\ keys[key].state \in {"valid", "rejected"}
    /\ keys' = [keys EXCEPT ![key].state = "expired"]
    /\ UNCHANGED <<special, rings, handles, ret, errno, outsideKernel>>

\* the descriptions of the keys whose lives are followed
LifeDescriptions == {<<"a">>, <<"b">>}

\* the keys the program adds
MaxLifeKeys == 2

\* a program that holds its session keyring
InitLife ==
    /\ keys = [n \in Serials |->
                 IF n = 1 THEN KeyringRec(<<"_", "s", "e", "s">>) ELSE NoKey]
    /\ special = [id \in SpecialIds |->
                    IF id = KeyRingIdentifier.Session THEN 1 ELSE 0]
    /\ rings = {1}
    /\ handles = {}
    /\ ret = [op |-> "none"]
    /\ PermIdle
    /\ ErrIdle
    /\ MetaIdle
    /\ StoreIdle

NextLife ==
    \/ \E description \in LifeDescriptions :
         /\ Cardinality(handles) < MaxLifeKeys
         /\ AddKey(1, description, PayloadOfLen(1))
    \/ \E key \in Serials : Read(key, MaxBufLen)
    \/ \E key \in Serials : Update(key, PayloadOfLen(MaxPayloadLen))
    \/ \E key \in Serials, perm \in PermMasks : SetPerms(key, perm)
    \/ \E key \in Serials, seconds \in Seconds : SetTimeout(key, seconds)
    \/ \E key \in Serials : Revoke(key)
    \/ \E key \in Serials, seconds \in Seconds : Reject(key, seconds)
    \/ \E key \in Serials : Invalidate(key)
    \/ \E key \in Serials : LinkKey(1, key)
    \/ \E key \in Serials : TimerElapses(key)
    \/ CollectGarbage

SpecLife == InitLife /\ [][NextLife]_vars

\* the users and services descriptions are made of here: the strings of up
\* to MaxNameLen characters, "@" among them
MaxNameLen == 2

NameChars == {"a", "@"}

Names == UNION {[1..n -> NameChars] : n \in 0..MaxNameLen}

\* the description new_with_target(None, service, user) gives the credential,
\* with the user, service and description of the credential built before it
Describe(user, service) ==
    /\ ret' = [op |-> "description", user |-> user, service |-> service,
               description |-> DefaultDescription(service, user),
               before |-> IF ret.op = "description"
                          THEN [op |-> "description", user |-> ret.user,
                                service |-> ret.service,
                                description |-> ret.description]
                          ELSE [op |-> "none"]]
    /\ UNCHANGED <<keys, special, rings, handles, errno, outsideKernel>>

NextDescribe == \E user \in Names, service \in Names : Describe(user, service)

SpecDescribe == InitKeystore /\ [][NextDescribe]_vars

---------------------------------------------------------------------------
(* keystore.rs: get_secret and delete_credential in two threads            *)

\* the secret set_secret stored before the two threads start
RaceSecret == PayloadOfLen(MaxPayloadLen)

\* what the threads leave alone; errno belongs to each thread
outsideRace ==
    <<special, rings, handles, ret, errno, credential, stored, permVars, keyError, metaVars>>

\* get_secret, line 181: self.session.search(&self.description)
GetterSearch ==
    /\ getter.pc \in {"idle", "done"}
    /\ \E found \in SearchOutcomes(credential.session, credential.description) :
          getter' = IF found.ok
                    THEN [pc |-> "found", key |-> found.val,
                          after_delete |-> deleter.deleted]
                    ELSE [pc |-> "done", result |-> Err(decode_error(found.err)),
                          after_delete |-> deleter.deleted]
    /\ UNCHANGED <<keys, deleter, outsideRace>>

\* the link_key of get_secret into the keyring, after which the thread is at next
GetterLink(ring, next) ==
    LET e == IF KeyUnusable(getter.key) # 0 THEN KeyUnusable(getter.key)
             ELSE KeyUnusable(ring)
    IN  IF e # 0
        THEN /\ getter' = [pc |-> "done", result |-> Err(decode_error(from_errno(e))),
                           after_delete |-> getter.after_delete]
             /\ UNCHANGED keys
        ELSE /\ keys' = [keys EXCEPT ![ring].links =
                           LinkInto(@, getter.key, "user", credential.description)]
             /\ getter' = [getter EXCEPT !.pc = next]

\* get_secret, line 189: self.session.link_key(key)
GetterLinkSession ==
    /\ getter.pc = "found"
    /\ GetterLink(credential.session, "linked")
    /\ UNCHANGED <<deleter, outsideRace>>

\* get_secret, line 195: keyring.link_key(key), if there is a persistent keyring
GetterLinkPersistent ==
    /\ getter.pc = "linked"
    /\ credential.persistent # None
    /\ GetterLink(credential.persistent[1], "relinked")
    /\ UNCHANGED <<deleter, outsideRace>>

\* get_secret, line 199: key.read_to_vec()
GetterRead ==
    /\ getter.pc = IF credential.persistent = None THEN "linked" ELSE "relinked"
    /\ LET payload == keys[getter.key].payload
           data == IF Len(payload) <= ReadToVecCapacity THEN payload ELSE <<>>
           e == KeyUnusable(getter.key)
       IN  getter' = [pc |-> "done",
                      result |-> IF e # 0 THEN Err(decode_error(from_errno(e)))
                                 ELSE Ok(VecSetLen(data, Len(payload))),
                      after_delete |-> getter.after_delete]
    /\ UNCHANGED <<keys, deleter, outsideRace>>

\* delete_credential, line 216: self.session.search(&self.description)
DeleterSearch ==
    /\ deleter.pc \in {"idle", "done"}
    /\ \E found \in SearchOutcomes(credential.session, credential.description) :
          deleter' = IF found.ok
                     THEN [pc |-> "found", key |-> found.val, deleted |-> deleter.deleted]
                     ELSE [pc |-> "done", result |-> Err(decode_error(found.err)),
                           deleted |-> deleter.deleted]
    /\ UNCHANGED <<keys, getter, outsideRace>>

\* delete_credential, line 222: key.invalidate()
DeleterInvalidate ==
    /\ deleter.pc = "found"
    /\ IF KeyUnusable(deleter.key) # 0
       THEN /\ deleter' = [pc |-> "done",
                           result |-> Err(decode_error(from_errno(KeyUnusable(deleter.key)))),
                           deleted |-> deleter.deleted]
            /\ UNCHANGED keys
       ELSE /\ keys' = [keys EXCEPT ![deleter.key].state = "invalid"]
            /\ deleter' = [pc |-> "done", result |-> Ok("unit"), deleted |-> TRUE]
    /\ UNCHANGED <<getter, outsideRace>>

\* a credential whose secret is set: the key is linked in the session keyring,
\* in the persistent keyring, or in both, and the credential may have been
\* built without the persistent keyring
InitRace ==
    /\ \E in_session \in BOOLEAN, in_persistent \in BOOLEAN, persistent \in {None, Some(2)} :
          /\ in_session \/ in_persistent
          /\ keys = [n \in Serials |->
                       CASE n = 1 -> [KeyringRec(<<"_", "s", "e", "s">>) EXCEPT
                                        !.links = IF in_session THEN <<2, 3>> ELSE <<2>>]
                         [] n = 2 -> [KeyringRec(PersistentDescription) EXCEPT
                                        !.links = IF in_persistent THEN <<3>> ELSE <<>>]
                         [] n = 3 -> UserKeyRec(DefaultDescription(<<"s">>, <<"u">>), RaceSecret)
                         [] OTHER -> NoKey]
          /\ credential = [built |-> TRUE, session |-> 1, persistent |-> persistent,
                           description |-> DefaultDescription(<<"s">>, <<"u">>)]
    /\ special = [id \in SpecialIds |->
                    IF id = KeyRingIdentifier.Session THEN 1 ELSE 0]
    /\ rings = {}
    /\ handles = {}
    /\ ret = [op |-> "none"]
    /\ stored = Some(RaceSecret)
    /\ RaceIdle
    /\ PermIdle
    /\ ErrIdle
    /\ MetaIdle

NextRace ==
    \/ GetterSearch
    \/ GetterLinkSession
    \/ GetterLinkPersistent
    \/ GetterRead
    \/ DeleterSearch
    \/ DeleterInvalidate
    \/ ExpirePersistent
    \/ CollectGarbage

SpecRace == InitRace /\ [][NextRace]_vars

---------------------------------------------------------------------------
(* key.rs: read_to_vec of keys that other programs made                    *)

\* the payload lengths of the keys met here: one byte, as many bytes as
\* read_to_vec has room for, and one more (a big_key holds up to 1 MiB - 1)
BigKeyLens == {1, ReadToVecCapacity, ReadToVecCapacity + 1}

\* a key of type big_key whose payload is len bytes
BigKeyRec(len) ==
    [ktype |-> "big_key", description |-> <<"b">>, payload |-> [i \in 1..len |-> 7],
     links |-> <<>>, state |-> "valid", timer |-> FALSE]

\* a session keyring that links to a key of type big_key and to user keys,
\* which the program holds as Key values (from get_links)
InitBigKey ==
    /\ \E len \in BigKeyLens, lens \in [3..MaxSerial -> 1..MaxPayloadLen] :
          keys = [n \in Serials |->
                    CASE n = 1 -> [KeyringRec(<<"_", "s", "e", "s">>) EXCEPT
                                     !.links = [i \in 1..(MaxSerial - 1) |-> i + 1]]
                      [] n = 2 -> BigKeyRec(len)
                      [] OTHER -> UserKeyRec(<<"a">>, PayloadOfLen(lens[n]))]
    /\ special = [id \in SpecialIds |->
                    IF id = KeyRingIdentifier.Session THEN 1 ELSE 0]
    /\ rings = {1}
    /\ handles = 2..MaxSerial
    /\ ret = [op |-> "none"]
    /\ PermIdle
    /\ ErrIdle
    /\ MetaIdle
    /\ StoreIdle

NextBigKey ==
    \/ \E key \in Serials : ReadToVec(key)
    \/ \E key \in Serials, buflen \in 0..MaxBufLen : Read(key, buflen)

SpecBigKey == InitBigKey /\ [][NextBigKey]_vars

\* every KeyError: the kinds with a name and Unknown(x)
KeyErrors == KeyErrorKinds \cup {Unknown(x) : x \in 0..MaxErrno}

\* some call of the API has returned Err(keyError)
InitDecode ==
    /\ keyError \in KeyErrors
    /\ errno = 0
    /\ PermIdle
    /\ MetaIdle
    /\ KernelIdle
    /\ StoreIdle

\* .map_err(decode_error)
DecodeError ==
    /\ ret.op = "none"
    /\ ret' = [op |-> "decode_error", err |-> keyError, result |-> decode_error(keyError)]
    /\ UNCHANGED <<keys, special, rings, handles, errno, outsideKernel>>

NextDecode == DecodeError

SpecDecode == InitDecode /\ [][NextDecode]_vars

---------------------------------------------------------------------------
(* C1: after set_<t>_perms(p) on any mask m, the byte of tier t in bits()  *)
(* equals the bits of p and the other three bytes are those of m.          *)
C1_SetterReplacesOnlyItsByte ==
    permCall.op = "set" =>
        /\ Bits(perms)[TierIndex[permCall.tier]] = PermissionBits(permCall.perm)
        /\ \A t \in Tiers \ {permCall.tier} :
               Bits(perms)[TierIndex[t]] = permCall.before[TierIndex[t]]

\* a setter has replaced a byte with reserved bits set, next to bytes that
\* are full
C1_Witness ==
    /\ permCall.op = "set"
    /\ permCall.tier = "user"
    /\ permCall.before = <<255, 255, 255, 255>>
    /\ permCall.perm = {"VIEW", "SEARCH"}
    /\ perms = <<255, 9, 255, 255>>

---------------------------------------------------------------------------
(* C2: new() and builder() start at the all-zero mask, and after any       *)
(* sequence of setter calls (direct, or chained on the builder and then    *)
(* built) each tier's byte of bits() holds the bits of the most recent     *)
(* call for that tier, and 0 for a tier never set.                         *)
C2_LastSetterWins ==
    permStage \in {"new", "builder", "built"} =>
        \A t \in Tiers :
            Bits(perms)[TierIndex[t]] =
                IF permLast[t] = <<>> THEN 0 ELSE PermissionBits(permLast[t][1])

\* a built mask whose possessor tier was last set to ALL and whose user
\* tier to view/read/write, the group and world tiers never set
C2_Witness ==
    /\ permStage = "built"
    /\ permLast = [posessor |-> <<PermissionALL>>,
                   user |-> <<{"VIEW", "READ", "WRITE"}>>,
                   group |-> <<>>, world |-> <<>>]
    /\ perms = <<63, 7, 0, 0>>

---------------------------------------------------------------------------
(* What the claims about descriptors speak of, read off the string itself  *)

\* the places of the ';' in s
Semicolons(s) == {i \in 1..Len(s) : s[i] = ";"}

\* the place of the n-th ';' (n at most their number)
NthSemicolon(s, n) ==
    CHOOSE i \in Semicolons(s) : Cardinality({j \in Semicolons(s) : j < i}) = n - 1

FieldCount(s) == Cardinality(Semicolons(s)) + 1

\* the n-th ';'-separated field (n at most FieldCount)
Field(s, n) ==
    SubSeq(s,
           IF n = 1 THEN 1 ELSE NthSemicolon(s, n - 1) + 1,
           IF n < FieldCount(s) THEN NthSemicolon(s, n) - 1 ELSE Len(s))

\* everything after the fourth ';'
AfterFourthSemicolon(s) == SubSeq(s, NthSemicolon(s, 4) + 1, Len(s))

KnownTags == {<<"k", "e", "y", "r", "i", "n", "g">>, <<"u", "s", "e", "r">>, <<"l", "o", "g", "o", "n">>, <<"b", "i", "g", "_", "k", "e", "y">>}

DecimalChars == {"0", "1", "2", "3", "4", "5", "6", "7", "8", "9"}

HexChars == DecimalChars \cup {"a", "b", "c", "d", "e", "f", "A", "B", "C", "D", "E", "F"}

DigitOrder(c) == CHOOSE i \in 1..10 : HexLower[i] = c

\* digit strings without leading zeros: a <= b as numbers
DigitsLeq(a, b) ==
    \/ Len(a) < Len(b)
    \/ /\ Len(a) = Len(b)
       /\ \/ a = b
          \/ \E i \in 1..Len(a) :
                /\ \A j \in 1..(i - 1) : a[j] = b[j]
                /\ DigitOrder(a[i]) < DigitOrder(b[i])

\* the digits of a numeral: Rust's integers take one leading '+'
Unsigned(f) == IF f # <<>> /\ f[1] = "+" THEN Tail(f) ELSE f

\* f is a decimal numeral of a value up to 2^32 - 1 = 4294967295
IsDecimalU32(f) ==
    /\ Unsigned(f) # <<>>
    /\ \A i \in 1..Len(Unsigned(f)) : Unsigned(f)[i] \in DecimalChars
    /\ DigitsLeq(StripLeadingZeros(Unsigned(f)), <<"4", "2", "9", "4", "9", "6", "7", "2", "9", "5">>)

\* f is a hexadecimal numeral of a value up to 0xffffffff
IsHexU32(f) ==
    /\ Unsigned(f) # <<>>
    /\ \A i \in 1..Len(Unsigned(f)) : Unsigned(f)[i] \in HexChars
    /\ Len(StripLeadingZeros(Unsigned(f))) <= 8

\* the descriptor lacks a field or holds one that cannot be read
Malformed(s) ==
    \/ FieldCount(s) < 5
    \/ Field(s, 1) \notin KnownTags
    \/ ~IsDecimalU32(Field(s, 2))
    \/ ~IsDecimalU32(Field(s, 3))
    \/ ~IsHexU32(Field(s, 4))

---------------------------------------------------------------------------
(* C3: for every type tag, uid, gid, 32-bit permission mask p and          *)
(* description d without a ';', parsing "<tag>;<uid>;<gid>;<p in hex>;<d>" *)
(* succeeds with the matching KeyType, that uid and gid, permissions whose *)
(* bits() are p on all 32 bits, and the description d.                     *)
C3_DescriptorRoundTrip ==
    (mdInput # NoInput /\ mdResult.via = "from_str") =>
        /\ mdResult.res.ok
        /\ mdResult.res.val.ktype = mdInput.ktype
        /\ mdResult.res.val.uid = mdInput.uid
        /\ mdResult.res.val.gid = mdInput.gid
        /\ Bits(mdResult.res.val.perm) = mdInput.perm
        /\ mdResult.res.val.description = mdInput.desc

\* "user;1000;1000;3f010000;my-key" was parsed
C3_Witness ==
    /\ mdInput # NoInput
    /\ mdStr = <<"u", "s", "e", "r", ";", "1", "0", "0", "0", ";", "1", "0", "0", "0", ";", "3", "f", "0", "1", "0", "0", "0", "0", ";", "m", "y", "-", "k", "e", "y">>
    /\ mdResult.via = "from_str"
    /\ mdResult.res.ok
    /\ mdResult.res.val.perm = <<63, 1, 0, 0>>

(* C4: for every descriptor the parser accepts, the description returned   *)
(* is the whole of the input after the fourth ';'.                         *)
C4_DescriptionIsRemainder ==
    (mdResult.via = "from_str" /\ mdResult.res.ok) =>
        mdResult.res.val.description = AfterFourthSemicolon(mdStr)

(* C5: parsing fails with exactly InvalidDescription, and nothing else,    *)
(* whenever the descriptor has fewer than five fields, an unknown type     *)
(* tag, a uid or gid that is no decimal u32, or a permission field that is *)
(* no hexadecimal u32 (numerals as Rust reads them: one leading '+' is     *)
(* allowed); and no failure of the parser is of another kind.              *)
C5_ParseFailuresAreInvalidDescription ==
    mdResult.via = "from_str" =>
        /\ Malformed(mdStr) => mdResult.res = Err("InvalidDescription")
        /\ ~mdResult.res.ok => mdResult.res = Err("InvalidDescription")

\* a descriptor with the tag "User" and five good fields was refused
C5_Witness ==
    /\ mdStr = <<"U", "s", "e", "r", ";", "1", "0", "0", "0", ";", "1", "0", "0", "0", ";", "3", "f", "0", "1", "0", "0", "0", "0", ";", "m", "y", "-", "k", "e", "y">>
    /\ mdResult.via = "from_str"
    /\ mdResult.res = Err("InvalidDescription")

(* C6: Metadata::from_id never panics, whatever length Describe reports    *)
(* and whatever the buffer holds: it returns a Metadata or an error.       *)
C6_FromIdNeverPanics ==
    mdResult.via = "from_id" => mdResult.res # Panic

(* C7: the KeyType-to-tag mapping is one-to-one onto "keyring", "user",    *)
(* "logon", "big_key": parsing the tag of t yields t, distinct types have  *)
(* distinct tags, and any other string is refused with an error value.     *)
C7_KeyTypeTagBijective ==
    /\ \A t1, t2 \in KeyTypes : KeyTypeCStr(t1) = KeyTypeCStr(t2) => t1 = t2
    /\ {CStrToBytes(KeyTypeCStr(t)) : t \in KeyTypes} = KnownTags
    /\ mdInput # NoInput => KeyTypeTryFrom(Field(mdStr, 1)) = Ok(mdInput.ktype)
    /\ LET r == KeyTypeTryFrom(Field(mdStr, 1))
       IN  IF Field(mdStr, 1) \in KnownTags
           THEN r.ok /\ CStrToBytes(KeyTypeCStr(r.val)) = Field(mdStr, 1)
           ELSE r = Err("InvalidIdentifier")
    /\ (mdResult.via = "from_str" /\ mdResult.res.ok) =>
           CStrToBytes(KeyTypeCStr(mdResult.res.val.ktype)) = Field(mdStr, 1)

\* the descriptor of a big_key was parsed back to KeyType::BigKey
C7_Witness ==
    /\ mdInput # NoInput
    /\ mdInput.ktype = "BigKey"
    /\ Field(mdStr, 1) = <<"b", "i", "g", "_", "k", "e", "y">>
    /\ mdResult.via = "from_str"
    /\ mdResult.res.ok
    /\ mdResult.res.val.ktype = "BigKey"

---------------------------------------------------------------------------
(* C8: from_errno is total: each of the ten errno values it names maps to  *)
(* its own KeyError kind (EKEYREVOKED to KeyRevoked, EKEYEXPIRED to        *)
(* KeyExpired, EKEYREJECTED to KeyRejected), no two of them to the same    *)
(* kind, and every other errno x to Unknown(x).                            *)
NamedErrnos ==
    {EACCES, EDQUOT, EFAULT, EINVAL, EKEYEXPIRED, EKEYREVOKED, EKEYREJECTED,
     ENOMEM, ENOKEY, ENOTSUP}

C8_FromErrnoTotal ==
    keyError # NoError =>
        /\ keyError \in KeyErrorKinds \/ keyError = Unknown(errno)
        /\ errno \in NamedErrnos <=> keyError \in KeyErrorKinds
        /\ errno = EKEYREVOKED <=> keyError = "KeyRevoked"
        /\ errno = EKEYEXPIRED <=> keyError = "KeyExpired"
        /\ errno = EKEYREJECTED <=> keyError = "KeyRejected"
        /\ errno = EACCES <=> keyError = "AccessDenied"
        /\ errno = EDQUOT <=> keyError = "QuotaExceeded"
        /\ errno = EFAULT <=> keyError = "BadAddress"
        /\ errno = EINVAL <=> keyError = "InvalidArguments"
        /\ errno = ENOMEM <=> keyError = "OutOfMemory"
        /\ errno = ENOKEY <=> keyError = "KeyDoesNotExist"
        /\ errno = ENOTSUP <=> keyError = "OperationNotSupported"

\* a call failed with EKEYREVOKED and keyctl_impl reported KeyRevoked
C8_Witness == errno = EKEYREVOKED /\ keyError = "KeyRevoked"

---------------------------------------------------------------------------
(* C9: from_special_id(id, create = false) on a special keyring that does  *)
(* not yet exist fails with the error kind KeyringDoesNotExist; with       *)
(* create = true it succeeds and returns the id of the keyring the kernel  *)
(* created on demand.                                                      *)
C9_MissingKeyringIsKeyringDoesNotExist ==
    (ret.op = "from_special_id" /\ ~ret.existed /\ ret.id \in CreatedOnDemand) =>
        IF ret.create
        THEN /\ ret.result.ok
             /\ ret.result.val = special[ret.id]
             /\ keys[ret.result.val].ktype = "keyring"
        ELSE ret.result = Err("KeyringDoesNotExist")

(* C10: a successful Key::read(buffer) returns n with n <= the buffer's    *)
(* length, and buffer[..n] holds the first n bytes of the payload, for     *)
(* every payload length and buffer length.                                 *)
C10_ReadReturnsBytesWritten ==
    (ret.op = "read" /\ ret.result.ok) =>
        /\ ret.result.val <= ret.buflen
        /\ SubSeq(ret.buffer, 1, ret.result.val) = SubSeq(ret.payload, 1, ret.result.val)

(* C11: for every description and non-empty payload s, a read or a         *)
(* read_to_vec right after add_key(description, s) on the returned key     *)
(* yields exactly the bytes of s (read into a buffer that has room for     *)
(* them), and a read right after update(u) on that key yields exactly the  *)
(* bytes of u.                                                             *)
C11_ReadYieldsWhatWasWritten ==
    (/\ ret.op \in {"read", "read_to_vec"}
     /\ ret.follows.op \in {"add_key", "update"}
     /\ ret.follows.key = ret.key
     /\ ret.op = "read" => ret.buflen >= Len(ret.follows.secret)) =>
        /\ ret.result.ok
        /\ IF ret.op = "read"
           THEN /\ ret.result.val = Len(ret.follows.secret)
                /\ SubSeq(ret.buffer, 1, ret.result.val) = ret.follows.secret
           ELSE ret.result.val = ret.follows.secret

\* the key was added with <<1>>, updated to <<2, 1>> and read back at once
C11_Witness ==
    /\ ret.op = "read_to_vec"
    /\ ret.follows.op = "update"
    /\ ret.follows.key = ret.key
    /\ ret.result = Ok(<<2, 1>>)

(* C12: get_links on a keyring returns a node equal to a key exactly when   *)
(* the keyring links to that key and the key has not been invalidated, and *)
(* a search of the keyring for a description that no valid key under it    *)
(* has fails with a no-entry-class error.                                  *)
C12_LinksFollowTheKeyring ==
    /\ (ret.op = "get_links" /\ ret.read) =>
          /\ ret.result.ok
          /\ \A key \in Serials :
                (\E i \in 1..Len(ret.result.val) : NodeEqKey(ret.result.val[i], key))
                <=> (\E i \in 1..Len(ret.entries) :
                        ret.entries[i] = key /\ ret.types[key] = "user")
    /\ (ret.op = "search" /\ ret.live = {}) =>
          ~ret.result.ok /\ ret.result.err \in NoEntryErrors

(* C13: for a keyring whose n entries are all user keys or keyrings,       *)
(* get_links(max) returns the nodes of exactly the first min(n, max)       *)
(* linked identifiers, in keyring order.                                   *)
C13_FirstMaxLinkedIds ==
    (/\ ret.op = "get_links"
     /\ ret.read
     /\ \A i \in 1..Len(ret.entries) : ret.types[ret.entries[i]] \in {"user", "keyring"}) =>
        /\ ret.result.ok
        /\ LET n == Len(ret.entries)
               first == IF n <= ret.max THEN n ELSE ret.max
           IN  [i \in 1..Len(ret.result.val) |-> ret.result.val[i].id]
                  = SubSeq(ret.entries, 1, first)

(* C14: once the keyring read succeeds get_links returns a listing: the    *)
(* identifiers read that resolve to a keyring become KeyRing nodes, those  *)
(* that resolve to a user key become Key nodes, the others are left out,   *)
(* and the order is the order read.                                        *)
C14_EntriesNeverFailTheListing ==
    (ret.op = "get_links" /\ ret.read) =>
        /\ ret.result.ok
        /\ LET kept == SelectSeq(ret.raw, LAMBDA id : ret.types[id] \in {"user", "keyring"})
           IN  ret.result.val =
                  [i \in 1..Len(kept) |-> IF ret.types[kept[i]] = "keyring"
                                          THEN KeyRingNode(kept[i])
                                          ELSE KeyNode(kept[i])]


(* C15: a node equals a Key (a KeyRing) exactly when it is the Key (the    *)
(* KeyRing) variant and wraps the same identifier; contains(x) is true     *)
(* exactly when some node of the Links is of x's variant with x's          *)
(* identifier; get(x) returns the first such node, and None exactly when   *)
(* there is none.                                                          *)
C15_SameVariantSameId ==
    ret.op \in {"get", "contains"} =>
        LET same(i) == /\ ret.links[i].variant = ret.entry.type
                       /\ ret.links[i].id = ret.entry.id
            hits == {i \in 1..Len(ret.links) : same(i)}
        IN  IF ret.op = "contains" THEN ret.result = (hits # {})
            ELSE /\ (ret.result = None) <=> (hits = {})
                 /\ (ret.result = None) <=> ~LinksContains(ret.links, ret.entry)
                 /\ hits # {} =>
                       \E i \in hits : /\ \A j \in hits : i <= j
                                       /\ ret.result = Some(ret.links[i])

\* a Key is asked for in Links that hold a KeyRing node of the same
\* identifier before the Key node: get passes the KeyRing node over
C15_Witness ==
    /\ ret.op = "get"
    /\ ret.links = <<KeyRingNode(1), KeyNode(1)>>
    /\ ret.entry = [type |-> "Key", id |-> 1]
    /\ ret.result = Some(KeyNode(1))


(* C16: set_secret with an empty secret, and set_password with an empty    *)
(* password, return an Invalid error and make no system call: no key is    *)
(* created, updated or linked.                                             *)
C16_EmptySecretIsRefused ==
    (ret.op \in {"set_secret", "set_password"} /\ ret.secret = <<>>) =>
        /\ ~ret.result.ok
        /\ ret.result.err.code = "Invalid"
        /\ ret.calls = <<>>
        /\ ~ret.changed

\* an empty password is set on a credential whose key exists
C16_Witness ==
    /\ ret.op = "set_password"
    /\ ret.secret = <<>>
    /\ ret.result = Err(Invalid("secret", "cannot be empty"))
    /\ credential.built
    /\ LiveKeys(credential.description) # {}

(* C17: after set_secret calls that succeeded, with no delete_credential   *)
(* and no change of the keyrings since the last of them, get_secret        *)
(* returns exactly the bytes given to the last of them.                    *)
C17_GetReturnsTheLastSet ==
    (ret.op = "get_secret" /\ stored # None) => ret.result = Ok(stored[1])

\* the secret <<195>>, which is not UTF-8, is read back through both keyrings
C17_Witness ==
    /\ ret.op = "get_secret"
    /\ stored = Some(<<195>>)
    /\ ret.result = Ok(<<195>>)
    /\ ret.calls = <<"search", "link_key", "link_key", "read">>

C19_FailedRelinkIsNotFatal ==
    (ret.op = "get_secret" /\ ret.found.ok) => ret.result = Ok(ret.payload)

(* C20: get_secret returns the secret while the key is linked in the       *)
(* session keyring, or in an unexpired persistent keyring that the session *)
(* keyring links to, and fails only when it is in neither.                 *)
C20_AccessibleWhileEitherKeyringLives ==
    ret.op = "get_secret" =>
        IF ret.in_session \/ ret.in_persistent
        THEN ret.result = Ok(ret.payload)
        ELSE ~ret.result.ok


(* C21: decode_error returns an error for every KeyError: NoEntry for      *)
(* exactly KeyDoesNotExist, AccessDenied, KeyRevoked and KeyExpired,       *)
(* Invalid for InvalidDescription and InvalidArguments, and                *)
(* PlatformFailure, with the KeyError inside, for every other one.         *)
C21_DecodeErrorTotal ==
    ret.op = "decode_error" =>
        /\ ret.result.code \in {"NoEntry", "Invalid", "PlatformFailure"}
        /\ ret.result.code = "NoEntry" <=>
              \/ ret.err = "KeyDoesNotExist"
              \/ ret.err = "AccessDenied"
              \/ ret.err = "KeyRevoked"
              \/ ret.err = "KeyExpired"
        /\ ret.result.code = "Invalid" <=>
              ret.err = "InvalidDescription" \/ ret.err = "InvalidArguments"
        /\ ret.result.code = "PlatformFailure" => ret.result.source = ret.err

\* KeyRejected came out as a PlatformFailure
C21_Witness ==
    /\ ret.op = "decode_error"
    /\ ret.err = "KeyRejected"
    /\ ret.result = PlatformFailure("KeyRejected")


(* C22: new_with_target with the empty target returns an Invalid error     *)
(* whatever the state of the kernel's keyrings is.                         *)
C22_EmptyTargetIsInvalid ==
    (ret.op = "new_with_target" /\ ret.target = Some(<<>>)) =>
        /\ ~ret.result.ok
        /\ ret.result.err.code = "Invalid"


\* the operations of Key and KeyRing that are given one key
KeyOps ==
    {"read", "update", "set_perms", "set_timeout", "revoke", "reject", "invalidate",
     "link_key"}

\* the error kind of a key's state
StateError(state) ==
    CASE state = "revoked" -> "KeyRevoked"
      [] state = "rejected" -> "KeyRejected"
      [] state = "expired" -> "KeyExpired"
      [] OTHER -> "KeyDoesNotExist"

(* C23, as stated: a key that has been revoked, rejected, expired or       *)
(* invalidated is never valid (readable) again, whatever is called.        *)
C23_EndStatesOneWay ==
    [][\A n \in Serials :
          (keys[n] # NoKey /\ keys[n].state \in {"revoked", "rejected", "expired", "invalid"})
              => keys'[n].state # "valid"]_vars

(* C23: a key that has been revoked, has expired or has been invalidated   *)
(* is never valid or rejected again, and an operation on a key that is not *)
(* valid fails with the error kind of the key's state; the one exception   *)
(* is update, which makes a rejected key valid again.                      *)
C23_EndStatesOneWayButRejected ==
    [][/\ \A n \in Serials :
             (keys[n] # NoKey /\ keys[n].state \in {"revoked", "expired", "invalid", "dead"})
                 => keys'[n].state \notin {"valid", "rejected"}
       /\ (/\ ret' # ret
           /\ ret'.op \in KeyOps
           /\ keys[ret'.key].state # "valid"
           /\ ~(ret'.op = "update" /\ keys[ret'.key].state = "rejected"))
              => ret'.result = Err(StateError(keys[ret'.key].state))]_vars

\* a read of a revoked key has failed with KeyRevoked
C23_Witness ==
    /\ ret.op = "read"
    /\ keys[ret.key].state = "revoked"
    /\ ret.result = Err("KeyRevoked")


\* get_secret or get_password has just returned
GetSecretReturns ==
    ret' # ret /\ ret'.op \in {"get_secret", "get_password"}

\* the calls of a get_secret are the first ones of: search, link_key into the
\* session keyring, link_key into the persistent keyring if the credential
\* has one, read; none follows a failed search, and a read is the last of all
GetSecretInOrder ==
    LET all == IF credential.persistent = None THEN <<"search", "link_key", "read">>
               ELSE <<"search", "link_key", "link_key", "read">>
        calls == ret'.calls
    IN  /\ Len(calls) <= Len(all)
        /\ calls = SubSeq(all, 1, Len(calls))
        /\ ~ret'.found.ok => Len(calls) <= 1
        /\ (ret'.found.ok /\ ~ret'.result.ok /\ ret'.op = "get_secret") => calls = SubSeq(all, 1, 3)
        /\ (ret'.result.ok \/ (\E i \in 1..Len(calls) : calls[i] = "read")) => calls = all

DirectlyLinked(ring) ==
    {n \in {keys'[ring].links[i] : i \in 1..Len(keys'[ring].links)} :
        /\ keys'[n].ktype = "user"
        /\ keys'[n].description = credential.description
        /\ keys'[n].state = "valid"}

(* C25: after a successful set_secret and after a successful get_secret    *)
(* the session keyring links to the credential's key itself, and so does   *)
(* the persistent keyring if the credential has one; delete_credential     *)
(* invalidates the key it found and removes no link.                       *)
C25_LinkedAfterSetAndGet ==
    [][/\ (/\ ret' # ret
           /\ ret'.op \in {"set_secret", "set_password", "get_secret", "get_password"}
           /\ ret'.result.ok)
              => \E key \in DirectlyLinked(credential.session) :
                    /\ credential.persistent # None
                          => key \in DirectlyLinked(credential.persistent[1])
                    /\ ret'.op \in {"get_secret", "get_password"} => key = ret'.found.val
                    /\ ret'.op \in {"set_secret", "set_password"}
                          => keys'[key].payload = ret'.secret
       /\ (ret' # ret /\ ret'.op = "delete_credential")
              => \A n \in Serials :
                    \/ keys'[n] = keys[n]
                    \/ /\ ret'.result.ok
                       /\ n = ret'.found.val
                       /\ keys'[n] = [keys[n] EXCEPT !.state = "invalid"]]_vars

\* a set_secret has succeeded for a credential with a persistent keyring,
\* which links to the key
C25_Witness ==
    /\ ret.op = "set_secret"
    /\ ret.result.ok
    /\ credential.built
    /\ credential.persistent # None
    /\ LinkedMatch(credential.persistent[1], "user", credential.description) # {}


(* C26: a set_secret that returns an error has created no key and changed  *)
(* no payload.                                                             *)
C26_SetSecretAllOrNothing ==
    (ret.op \in {"set_secret", "set_password"} /\ ~ret.result.ok) => ~ret.changed


(* C27: two credentials built without a target for different (user,        *)
(* service) pairs have different descriptions.                             *)
C27_DescriptionsUnique ==
    (/\ ret.op = "description"
     /\ ret.before.op = "description"
     /\ <<ret.user, ret.service>> # <<ret.before.user, ret.before.service>>)
        => ret.description # ret.before.description


TierShift == [posessor |-> 24, user |-> 16, group |-> 8, world |-> 0]

(* C29: in a tier setter, the sum of the mask with the tier's byte cleared *)
(* and the shifted capability bits fits 32 bits and carries out of no      *)
(* byte; the mask after the call holds the capability bits in the tier's   *)
(* byte and what it held before in the other three.                        *)
C29_SettersNeverOverflow ==
    permCall.op = "set" =>
        LET shift == TierShift[permCall.tier]
            cleared == And32(permCall.before, Not32(Shl32(U8AsU32(255), shift)))
            shifted == Shl32(U8AsU32(PermissionBits(permCall.perm)), shift)
        IN  /\ ~AddOverflows32(cleared, shifted)
            /\ \A i \in 1..4 : ByteSums(cleared, shifted)[i] < 256
            /\ perms = Add32(cleared, shifted)
            /\ \A i \in 1..4 :
                  perms[i] = IF i = TierIndex[permCall.tier]
                             THEN PermissionBits(permCall.perm)
                             ELSE permCall.before[i]

\* every capability set on the possessor of a mask that had every bit set
C29_Witness ==
    /\ permCall.op = "set"
    /\ permCall.tier = "posessor"
    /\ permCall.before = <<255, 255, 255, 255>>
    /\ permCall.perm = PermissionALL
    /\ perms = <<63, 255, 255, 255>>


(* C30: the vector read_to_vec returns is no longer than the 65536 bytes   *)
(* it allocated and holds exactly the key's payload.                       *)
C30_ReadToVecWithinCapacity ==
    (ret.op = "read_to_vec" /\ ret.result.ok) =>
        /\ Len(ret.result.val) <= ReadToVecCapacity
        /\ ret.result.val = keys[ret.key].payload

===========================================================================
